---- MODULE Spec2Model ----
(***************************************************************************)
(* A model of src/vllm/bench/utils/auto_batch_selector.py: the threshold   *)
(* predicate, the tail reader of the benchmark log, the result manager     *)
(* (dedup set and per-scenario best), the output writer (best-records      *)
(* file), the signal writer, the monitor loop and the binary search.       *)
(*                                                                         *)
(* Numbers: latencies and ceilings are finite numbers, modelled as         *)
(* naturals; None is the absent value of an optional field.                *)
(***************************************************************************)
EXTENDS Integers, Sequences, FiniteSets, TLC

VARIABLES
    \* ResultManager
    seen,            \* self.seen: set of (input_len, output_len, concurrency)
    best,            \* self.best: dict io_key -> TestRecord
    max_seen_size,   \* self.max_seen_size
    self_threshold,  \* the threshold of the run (self.threshold of the caller)
    \* history of the calls made on the ResultManager
    lastCall,        \* the last call: its name, arguments and return value
    callParity,      \* flips at every call, so that every call is a step
    maxAccepted,     \* io_key -> greatest concurrency update_best accepted
    \* satisfy() applied to drawn inputs
    satRecord, satThreshold, satResult,
    \* the benchmark log and its JsonTailReader
    logFile,         \* the content of the log: a sequence of chunks of bytes
    position,        \* self.position, counted in chunks
    \* history of the reads of a reader driven on its own (ReadNewLines)
    yielded,         \* what the last of these reads yielded, in order
    readReset,       \* whether it reset the position
    readParity,      \* flips at every one of them
    \* what the producer of the log has written
    fileRecs,        \* the records of the complete record lines of the log
    recsAtRead,      \* Len(fileRecs) at the last ReadNewLines
    appendedOnly,    \* the log has only been appended to since that read
    \* OutputWriter and the best-records file
    outFile,         \* the lines of self.filepath (none when it does not exist)
    tmpFile,         \* the temporary file: <<>> when absent, <<lines>> otherwise
    best_records,    \* self.best_records: the records, in insertion order
    storePc,         \* where write_record is: idle, or a place of _rewrite_file
    prevFile,        \* the lines of the file when the last write_record began
    fellBack,        \* the last write_record went to the direct overwrite
    lastPut,         \* the record of the last write_record
    putParity,       \* flips at every write_record
    \* BinarySearchMode.run
    min_batch,       \* args.min_batch
    max_batch,       \* args.max_batch
    lo, hi,          \* the bounds of the search
    best_record,     \* the running best (None at first)
    iteration,       \* the number of probes run
    searchPc,        \* "loop" while the search runs, "done" after it
    profile,         \* the harness: the ttft it measures at each batch
    allEmitted,      \* every probe so far appended its record to the log
    \* MonitorMode
    running,         \* self.running
    monPc,           \* where run is: "constructed", "poll", "process", "stopped"
    pending,         \* the values read_new_lines has yet to yield in this cycle
    signalFile,      \* the payload in the signal file (none at first)
    signalled,       \* a SIGINT or SIGTERM has been delivered
    processedRecs,   \* the records _process_record has been given
    freshRecs,       \* those of them add_record reported new
    pendingAtSignal, \* what the for loop had yet to process when the handler ran
    \* main, in binary mode
    mainPc,          \* where main is
    exitCode,        \* the exit code of the process (none while it runs)
    logExists,       \* the log file exists
    has_template,    \* args.bench_cmd_template is given
    waitParity,      \* flips at every sleep of _check_file
    args_max_seen_size,  \* args.max_seen_size
    \* SignalWriter under direct calls (Announce)
    lastAnnounced,   \* the record of the last of these calls
    announceParity,  \* flips at every one of them
    \* one record followed through the ResultManager (SpecReobserve)
    watched,         \* the record followed
    phase,           \* unseen, added, processed, reobserved or rerun
    \* threads calling into one object guarded by its self.lock
    lockHolder,      \* the thread that holds self.lock, 0 when it is free
    thrPc,           \* thread -> where it is in its call
    thrArg,          \* thread -> the record its call was given
    thrOp,           \* thread -> the method it calls
    thrLocal,        \* thread -> the value its call has read under the lock
    thrOverlap,      \* thread -> the threads whose call of add_record with its key,
                     \* in progress with its own, has returned True
    \* submitted: the write_record and update_best calls so far, method and
    \* record (and the seeded records)
    submitted,
    \* the order of the monitor's processing
    handed,          \* the records given to add_record, in the order of the calls
    \* parse_threshold
    parseInput,      \* the string s, as its words and its runs of whitespace
    parseRes,        \* the dict returned, none before the return
    parseWarned,     \* the items printed as ignored, in order
    parsePc          \* idle, called or returned

trackerVars == <<seen, best, max_seen_size, self_threshold, lastCall, callParity,
                 maxAccepted>>
satVars == <<satRecord, satThreshold, satResult>>
readerVars == <<logFile, position, yielded, readReset, readParity,
                fileRecs, recsAtRead, appendedOnly>>
storeVars == <<outFile, tmpFile, best_records, storePc, prevFile, fellBack,
               lastPut, putParity>>
searchVars == <<min_batch, max_batch, lo, hi, best_record, iteration,
                searchPc, profile, allEmitted>>
monitorVars == <<running, monPc, pending, signalFile, signalled,
                 processedRecs, freshRecs,
                   pendingAtSignal>>
mainVars == <<mainPc, exitCode, logExists, has_template, waitParity,
              args_max_seen_size>>
signalVars == <<lastAnnounced, announceParity>>
watchVars == <<watched, phase>>
threadVars == <<lockHolder, thrPc, thrArg, thrOp, thrLocal, thrOverlap,
                submitted>>
orderVars == <<handed>>
parseVars == <<parseInput, parseRes, parseWarned, parsePc>>
vars == <<trackerVars, satVars, readerVars, storeVars, searchVars,
          monitorVars, mainVars, signalVars,
          watchVars,
          threadVars,
          orderVars,
          parseVars>>

----------------------------------------------------------------------------
(* Bounds of the model *)

MaxConc == 2        \* concurrency values are 1..MaxConc
MaxCap == 1         \* max_seen_size is drawn from 0..MaxCap
MaxLogLen == 7      \* the log holds at most MaxLogLen chunks
MaxFileLines == 2   \* a best-records file found at start has at most this many lines
MaxBatch == 4       \* min_batch and max_batch are drawn from 1..MaxBatch
MaxMonitorLines == 3  \* the producer appends at most this many lines to a monitored log
MaxThreads == 2     \* the threads that call into one object are 1..MaxThreads
MaxThresholdChunks == 3  \* a --threshold string has at most this many words and runs of whitespace

----------------------------------------------------------------------------
(* TestRecord *)

\* The value of an optional metric that is absent (Optional[float] = None).
None == -1

InputLens == {128}
OutputLens == {128, 256}
Concurrencies == 1..MaxConc

\* The ceiling of the thresholds ("ttft:100"), and latency values below it,
\* equal to it and above it.
Ceiling == 100
LowMs == Ceiling - 10
HighMs == Ceiling + 50
MetricVals == {None, LowMs, Ceiling, HighMs}

TestRecord(il, ol, c, ttft, tpot, e2el) ==
    [input_len |-> il, output_len |-> ol, concurrency |-> c,
     mean_ttft_ms |-> ttft, mean_tpot_ms |-> tpot, mean_e2el_ms |-> e2el]

\* Every record over the metric values.
AllRecords ==
    {TestRecord(il, ol, c, a, b, d) :
        il \in InputLens, ol \in OutputLens, c \in Concurrencies,
        a \in MetricVals, b \in MetricVals, d \in MetricVals}

\* The records the benchmark of these runs emits: ttft measured, below or
\* above the ceiling, the other two metrics not reported.
Records ==
    {r \in AllRecords : r.mean_ttft_ms \in {LowMs, HighMs}
                        /\ r.mean_tpot_ms = None /\ r.mean_e2el_ms = None}

\* key = (record.input_len, record.output_len, record.concurrency)
DedupKey(record) == <<record.input_len, record.output_len, record.concurrency>>

\* io_key = (record.input_len, record.output_len)
IoKey(record) == <<record.input_len, record.output_len>>

IoKeys == InputLens \X OutputLens

----------------------------------------------------------------------------
(* Thresholds and satisfy *)

ThrKeys == {"ttft", "tpot", "e2el"}

\* A threshold is a dict from some of the metric names to a ceiling.
AllThresholds == UNION {[K -> {Ceiling}] : K \in SUBSET ThrKeys}

EmptyThreshold == [k \in {} |-> Ceiling]
TtftThreshold == [k \in {"ttft"} |-> Ceiling]

\* The thresholds of the tracker runs: none, or a ttft ceiling.
Thresholds == {EmptyThreshold, TtftThreshold}

checks == [ttft |-> "mean_ttft_ms", tpot |-> "mean_tpot_ms",
           e2el |-> "mean_e2el_ms"]

\* satisfy without its ttft check.
satisfy_skip_ttft(record, threshold) ==
    IF DOMAIN threshold = {} THEN TRUE
    ELSE ~ \E thr_key \in DOMAIN checks \ {"ttft"} :
             /\ thr_key \in DOMAIN threshold
             /\ LET rec_value == record[checks[thr_key]]
                IN  rec_value # None /\ rec_value > threshold[thr_key]

\* satisfy with >= in place of >.
satisfy_strict(record, threshold) ==
    IF DOMAIN threshold = {} THEN TRUE
    ELSE ~ \E thr_key \in DOMAIN checks :
             /\ thr_key \in DOMAIN threshold
             /\ LET rec_value == record[checks[thr_key]]
                IN  rec_value # None /\ rec_value >= threshold[thr_key]

\* satisfy(record, threshold): False at the first checked metric whose value
\* is present and above its ceiling, True otherwise.
satisfy(record, threshold) ==
    IF DOMAIN threshold = {} THEN TRUE
    ELSE ~ \E thr_key \in DOMAIN checks :
             /\ thr_key \in DOMAIN threshold
             /\ LET rec_value == record[checks[thr_key]]
                IN  rec_value # None /\ rec_value > threshold[thr_key]

----------------------------------------------------------------------------
(* Optional values and dicts *)

\* Optional[TestRecord]: <<>> is None, <<r>> is the record r.
NoRecord == <<>>
Some(r) == <<r>>

\* dict.get(key): the value, or None.
DictGet(d, k) == IF k \in DOMAIN d THEN Some(d[k]) ELSE NoRecord

\* d[key] = value
DictSet(d, k, v) == [x \in DOMAIN d \cup {k} |-> IF x = k THEN v ELSE d[x]]

EmptyDict == [x \in {} |-> 0]

----------------------------------------------------------------------------
(* ResultManager *)

\* _cleanup_seen keeping the first half of list(self.seen).
cleanup_seen_first_half(S, cap) ==
    IF Cardinality(S) > cap
    THEN {K \in SUBSET S : Cardinality(K) = Cardinality(S) \div 2}
    ELSE {S}

\* _cleanup_seen: above the cap, list(self.seen)[len//2:] survives. A set
\* iterates in hash order, so any len - len//2 of the keys may be the
\* survivors; every one of these outcomes is a possible result.
cleanup_seen(S, cap) ==
    IF Cardinality(S) > cap
    THEN {K \in SUBSET S :
            Cardinality(K) = Cardinality(S) - (Cardinality(S) \div 2)}
    ELSE {S}

\* add_record without its test of the key: every record is new.
add_record_no_dedup(seenSet, cap, record) ==
    {[ret |-> TRUE, seen |-> K] :
        K \in cleanup_seen(seenSet \cup {DedupKey(record)}, cap)}

\* add_record: the possible outcomes [ret, seen] of a call.
add_record(seenSet, cap, record) ==
    LET key == DedupKey(record)
    IN  IF key \in seenSet
        THEN {[ret |-> FALSE, seen |-> seenSet]}
        ELSE {[ret |-> TRUE, seen |-> K] :
                K \in cleanup_seen(seenSet \cup {key}, cap)}

\* The comparison of update_best with >= in place of >.
beats_or_ties(record, old_best) ==
    old_best = NoRecord \/ record.concurrency >= old_best[1].concurrency

\* old_best is None or record.concurrency > old_best.concurrency
beats(record, old_best) ==
    old_best = NoRecord \/ record.concurrency > old_best[1].concurrency

\* update_best that installs a record without consulting satisfy.
update_best_ungated(bestMap, record, threshold) ==
    LET io_key == IoKey(record)
        old_best == DictGet(bestMap, io_key)
    IN  IF beats(record, old_best)
        THEN [updated |-> TRUE, old_best |-> old_best,
              best |-> DictSet(bestMap, io_key, record)]
        ELSE [updated |-> FALSE, old_best |-> NoRecord, best |-> bestMap]

\* update_best that never replaces a best it holds.
update_best_first_only(bestMap, record, threshold) ==
    LET io_key == IoKey(record)
        old_best == DictGet(bestMap, io_key)
    IN  IF satisfy(record, threshold) /\ old_best = NoRecord
        THEN [updated |-> TRUE, old_best |-> old_best,
              best |-> DictSet(bestMap, io_key, record)]
        ELSE [updated |-> FALSE, old_best |-> NoRecord, best |-> bestMap]

\* update_best that hands back the best it holds when it keeps it.
update_best_returns_kept(bestMap, record, threshold) ==
    LET io_key == IoKey(record)
        old_best == DictGet(bestMap, io_key)
    IN  IF satisfy(record, threshold) /\ beats(record, old_best)
        THEN [updated |-> TRUE, old_best |-> old_best,
              best |-> DictSet(bestMap, io_key, record)]
        ELSE [updated |-> FALSE, old_best |-> old_best, best |-> bestMap]

\* update_best that keeps the latest satisfying record of a scenario.
update_best_latest(bestMap, record, threshold) ==
    LET io_key == IoKey(record)
        old_best == DictGet(bestMap, io_key)
    IN  IF satisfy(record, threshold)
        THEN [updated |-> TRUE, old_best |-> old_best,
              best |-> DictSet(bestMap, io_key, record)]
        ELSE [updated |-> FALSE, old_best |-> NoRecord, best |-> bestMap]

\* update_best: the returned pair and the best map after the call.
update_best(bestMap, record, threshold) ==
    LET io_key == IoKey(record)
        old_best == DictGet(bestMap, io_key)
    IN  IF satisfy(record, threshold) /\ beats(record, old_best)
        THEN [updated |-> TRUE, old_best |-> old_best,
              best |-> DictSet(bestMap, io_key, record)]
        ELSE [updated |-> FALSE, old_best |-> NoRecord, best |-> bestMap]

----------------------------------------------------------------------------
(* The ResultManager under arbitrary calls, with the threshold of the run *)

NoCall == [op |-> "none", record |-> NoRecord, ret |-> FALSE]

TrackerIdle ==
    /\ seen = {}
    /\ best = EmptyDict
    /\ max_seen_size = 0
    /\ self_threshold = EmptyThreshold
    /\ lastCall = NoCall
    /\ callParity = FALSE
    /\ maxAccepted = [k \in IoKeys |-> <<>>]

ReaderIdle ==
    /\ logFile = <<>>
    /\ position = 0
    /\ yielded = <<>>
    /\ readReset = FALSE
    /\ readParity = FALSE
    /\ fileRecs = <<>>
    /\ recsAtRead = 0
    /\ appendedOnly = TRUE

StoreIdle ==
    /\ outFile = <<>>
    /\ tmpFile = <<>>
    /\ best_records = <<>>
    /\ storePc = "idle"
    /\ prevFile = <<>>
    /\ fellBack = FALSE
    /\ lastPut = NoRecord
    /\ putParity = FALSE

SearchIdle ==
    /\ min_batch = 1
    /\ max_batch = 1
    /\ lo = 1
    /\ hi = 1
    /\ best_record = NoRecord
    /\ iteration = 0
    /\ searchPc = "idle"
    /\ profile = <<>>
    /\ allEmitted = TRUE

MonitorIdle ==
    /\ running = FALSE
    /\ monPc = "idle"
    /\ pending = <<>>
    /\ signalFile = NoRecord
    /\ signalled = FALSE
    /\ processedRecs = {}
    /\ freshRecs = {}
    /\ pendingAtSignal = <<>>

NoExit == -1

MainIdle ==
    /\ mainPc = "idle"
    /\ exitCode = NoExit
    /\ logExists = TRUE
    /\ has_template = TRUE
    /\ waitParity = FALSE
    /\ args_max_seen_size = 0

WatchIdle ==
    /\ watched = NoRecord
    /\ phase = "idle"

ThreadsIdle ==
    /\ lockHolder = 0
    /\ thrPc = <<>>
    /\ thrArg = <<>>
    /\ thrOp = <<>>
    /\ thrLocal = <<>>
    /\ thrOverlap = <<>>
    /\ submitted = {}

OrderIdle ==
    /\ handed = <<>>

ParseIdle ==
    /\ parseInput = <<>>
    /\ parseRes = <<>>
    /\ parseWarned = <<>>
    /\ parsePc = "idle"

SignalIdle ==
    /\ lastAnnounced = NoRecord
    /\ announceParity = FALSE

SatIdle ==
    /\ satRecord = NoRecord
    /\ satThreshold = EmptyThreshold
    /\ satResult = "idle"

\* ResultManager(max_seen_size), and the threshold its caller holds
InitTracker ==
    /\ seen = {}
    /\ best = EmptyDict
    /\ max_seen_size \in 0..MaxCap
    /\ self_threshold \in Thresholds
    /\ lastCall = NoCall
    /\ callParity = FALSE
    /\ maxAccepted = [k \in IoKeys |-> <<>>]
    /\ SatIdle
    /\ MainIdle
    /\ SignalIdle
    /\ ParseIdle
    /\ OrderIdle
    /\ ThreadsIdle
    /\ WatchIdle
    /\ ReaderIdle
    /\ StoreIdle
    /\ SearchIdle
    /\ MonitorIdle

CallAddRecord(record) ==
    /\ \E out \in add_record(seen, max_seen_size, record) :
         /\ seen' = out.seen
         /\ lastCall' = [op |-> "add_record", record |-> Some(record),
                         ret |-> out.ret]
    /\ callParity' = ~callParity
    /\ UNCHANGED <<best, max_seen_size, self_threshold, maxAccepted>>
    /\ UNCHANGED <<satVars, readerVars, storeVars, searchVars, monitorVars,
                   mainVars, signalVars,
                   watchVars,
                   threadVars,
                   orderVars,
                   parseVars>>

CallUpdateBest(record) ==
    LET out == update_best(best, record, self_threshold)
        io_key == IoKey(record)
    IN  /\ best' = out.best
        /\ lastCall' = [op |-> "update_best", record |-> Some(record),
                        ret |-> out.updated]
        /\ maxAccepted' =
             IF out.updated /\ (maxAccepted[io_key] = <<>>
                             \/ record.concurrency > maxAccepted[io_key][1])
             THEN [maxAccepted EXCEPT ![io_key] = <<record.concurrency>>]
             ELSE maxAccepted
        /\ callParity' = ~callParity
        /\ UNCHANGED <<seen, max_seen_size, self_threshold>>
        /\ UNCHANGED <<satVars, readerVars, storeVars, searchVars, monitorVars,
                       mainVars, signalVars,
                       watchVars,
                       threadVars,
                       orderVars,
                       parseVars>>

NextTracker ==
    \/ \E record \in Records : CallAddRecord(record)
    \/ \E record \in Records : CallUpdateBest(record)

SpecTracker == InitTracker /\ [][NextTracker]_vars

----------------------------------------------------------------------------
(* satisfy applied to every record and threshold *)

InitSatisfy ==
    /\ MainIdle
    /\ SignalIdle
    /\ ParseIdle
    /\ OrderIdle
    /\ ThreadsIdle
    /\ WatchIdle
    /\ TrackerIdle
    /\ ReaderIdle
    /\ StoreIdle
    /\ SearchIdle
    /\ MonitorIdle
    /\ satRecord \in {Some(r) : r \in AllRecords}
    /\ satThreshold \in AllThresholds
    /\ satResult = "idle"

ApplySatisfy ==
    /\ satResult = "idle"
    /\ satResult' = IF satisfy(satRecord[1], satThreshold) THEN "true"
                    ELSE "false"
    /\ UNCHANGED <<satRecord, satThreshold>>
    /\ UNCHANGED <<trackerVars, readerVars, storeVars, searchVars, monitorVars,
                   mainVars, signalVars,
                   watchVars,
                   threadVars,
                   orderVars,
                   parseVars>>

NextSatisfy == ApplySatisfy

SpecSatisfy == InitSatisfy /\ [][NextSatisfy]_vars

----------------------------------------------------------------------------
(* The log file and JsonTailReader *)

\* The log is a sequence of chunks of bytes: the text of a record, the first
\* or the second part of that text (a line being written), a newline, or the
\* text of a JSON value that is no object.
Nl == [k |-> "nl", r |-> NoRecord]
Json(r) == [k |-> "json", r |-> Some(r)]
LineHead(r) == [k |-> "head", r |-> Some(r)]
LineTail(r) == [k |-> "tail", r |-> Some(r)]
NonDict == [k |-> "nondict", r |-> NoRecord]

\* The records the producer of the log writes.
LogRecords ==
    {r \in Records : r.output_len = 128 /\ r.mean_ttft_ms = LowMs
                     /\ r.concurrency \in {1, 2}}

\* The index of the first newline of data, 0 when it has none.
FirstNl(data) ==
    IF \E i \in 1..Len(data) : data[i] = Nl
    THEN CHOOSE i \in 1..Len(data) :
            data[i] = Nl /\ \A j \in 1..(i - 1) : data[j] # Nl
    ELSE 0

\* What a file is made of.
Chunks == [k : STRING, r : Seq([input_len : Int, output_len : Int,
                                concurrency : Int, mean_ttft_ms : Int,
                                mean_tpot_ms : Int, mean_e2el_ms : Int])]

\* f.readlines(): the lines of data, each with its newline, the last one
\* without when data does not end with a newline.
readlines[data \in Seq(Chunks)] ==
    IF data = <<>> THEN <<>>
    ELSE IF FirstNl(data) = 0 THEN <<data>>
    ELSE <<SubSeq(data, 1, FirstNl(data))>>
            \o readlines[SubSeq(data, FirstNl(data) + 1, Len(data))]

\* line.strip()
strip(line) == SelectSeq(line, LAMBDA c : c # Nl)

\* json.loads(line): the decoded value, or an error (JSONDecodeError).
JsonError == [k |-> "error", r |-> NoRecord]
DictOf(r) == [k |-> "dict", r |-> Some(r)]
NonDictValue == [k |-> "nondict", r |-> NoRecord]

json_loads(line) ==
    IF Len(line) = 1 /\ line[1].k = "json" THEN DictOf(line[1].r[1])
    ELSE IF Len(line) = 2 /\ line[1].k = "head" /\ line[2].k = "tail"
            /\ line[1].r = line[2].r THEN DictOf(line[1].r[1])
    ELSE IF Len(line) = 1 /\ line[1].k = "nondict" THEN NonDictValue
    ELSE JsonError

\* The loop over the lines read: blank lines and lines json.loads rejects are
\* skipped, the decoded values are yielded in order.
decode_lines[lines \in Seq(Seq(Chunks))] ==
    IF lines = <<>> THEN <<>>
    ELSE IF strip(Head(lines)) = <<>> THEN decode_lines[Tail(lines)]
    ELSE IF json_loads(strip(Head(lines))) = JsonError
    THEN decode_lines[Tail(lines)]
    ELSE <<json_loads(strip(Head(lines)))>> \o decode_lines[Tail(lines)]

\* read_new_lines with <= in place of < in its check of the size.
read_new_lines_reset_on_equal(file, pos) ==
    LET current_size == Len(file)
        reset == current_size <= pos
        start == IF reset THEN 0 ELSE pos
    IN  [reset |-> reset, position |-> current_size,
         yielded |->
            decode_lines[readlines[SubSeq(file, start + 1, current_size)]]]

\* read_new_lines that does not move self.position.
read_new_lines_no_advance(file, pos) ==
    LET current_size == Len(file)
        reset == current_size < pos
        start == IF reset THEN 0 ELSE pos
    IN  [reset |-> reset, position |-> pos,
         yielded |->
            decode_lines[readlines[SubSeq(file, start + 1, current_size)]]]

\* read_new_lines without its check of the size of the file.
read_new_lines_no_reset(file, pos) ==
    LET current_size == Len(file)
    IN  [reset |-> FALSE,
         position |-> IF pos > current_size THEN pos ELSE current_size,
         yielded |->
            decode_lines[readlines[SubSeq(file, pos + 1, current_size)]]]

\* read_new_lines, iterated to its end: the position is reset to 0 when the
\* file is shorter than it, everything from the position to the end of the
\* file is read and the position moves to the end of the file.
read_new_lines(file, pos) ==
    LET current_size == Len(file)
        reset == current_size < pos
        start == IF reset THEN 0 ELSE pos
    IN  [reset |-> reset, position |-> current_size,
         yielded |->
            decode_lines[readlines[SubSeq(file, start + 1, current_size)]]]

----------------------------------------------------------------------------
(* The JsonTailReader while a producer writes the log *)

\* JsonTailReader(filepath) over an existing, empty log
InitReader ==
    /\ TrackerIdle
    /\ SatIdle
    /\ MainIdle
    /\ SignalIdle
    /\ ParseIdle
    /\ OrderIdle
    /\ ThreadsIdle
    /\ WatchIdle
    /\ ReaderIdle
    /\ StoreIdle
    /\ SearchIdle
    /\ MonitorIdle

AtLineStart == IF logFile = <<>> THEN TRUE ELSE logFile[Len(logFile)] = Nl

\* The producer appends the line of a record.
AppendRecord(r) ==
    /\ AtLineStart
    /\ Len(logFile) + 2 <= MaxLogLen
    /\ logFile' = logFile \o <<Json(r), Nl>>
    /\ fileRecs' = Append(fileRecs, r)
    /\ UNCHANGED <<position, yielded, readReset, readParity, recsAtRead,
                   appendedOnly>>
    /\ UNCHANGED <<trackerVars, satVars, storeVars, searchVars, monitorVars,
                   mainVars, signalVars,
                   watchVars,
                   threadVars,
                   orderVars,
                   parseVars>>

\* The producer has written the first part of the line of a record.
AppendPartial(r) ==
    /\ AtLineStart
    /\ Len(logFile) + 3 <= MaxLogLen
    /\ logFile' = Append(logFile, LineHead(r))
    /\ UNCHANGED <<position, yielded, readReset, readParity, fileRecs,
                   recsAtRead, appendedOnly>>
    /\ UNCHANGED <<trackerVars, satVars, storeVars, searchVars, monitorVars,
                   mainVars, signalVars,
                   watchVars,
                   threadVars,
                   orderVars,
                   parseVars>>

\* The producer writes the rest of the line it had begun.
CompletePartial ==
    /\ logFile # <<>>
    /\ logFile[Len(logFile)].k = "head"
    /\ LET r == logFile[Len(logFile)].r[1]
       IN  /\ logFile' = logFile \o <<LineTail(r), Nl>>
           /\ fileRecs' = Append(fileRecs, r)
    /\ UNCHANGED <<position, yielded, readReset, readParity, recsAtRead,
                   appendedOnly>>
    /\ UNCHANGED <<trackerVars, satVars, storeVars, searchVars, monitorVars,
                   mainVars, signalVars,
                   watchVars,
                   threadVars,
                   orderVars,
                   parseVars>>

\* The producer appends a newline: a blank line.
AppendBlank ==
    /\ AtLineStart
    /\ Len(logFile) + 1 <= MaxLogLen
    /\ logFile' = Append(logFile, Nl)
    /\ UNCHANGED <<position, yielded, readReset, readParity, fileRecs,
                   recsAtRead, appendedOnly>>
    /\ UNCHANGED <<trackerVars, satVars, storeVars, searchVars, monitorVars,
                   mainVars, signalVars,
                   watchVars,
                   threadVars,
                   orderVars,
                   parseVars>>

\* The file of the records recs, one per line.
RECURSIVE FileOf(_)
FileOf(recs) ==
    IF recs = <<>> THEN <<>>
    ELSE <<Json(Head(recs)), Nl>> \o FileOf(Tail(recs))

\* The log is replaced by another file (rotation, truncation).
ReplaceLog(recs) ==
    /\ logFile # <<>>
    /\ logFile' = FileOf(recs)
    /\ fileRecs' = recs
    /\ appendedOnly' = FALSE
    /\ UNCHANGED <<position, yielded, readReset, readParity, recsAtRead>>
    /\ UNCHANGED <<trackerVars, satVars, storeVars, searchVars, monitorVars,
                   mainVars, signalVars,
                   watchVars,
                   threadVars,
                   orderVars,
                   parseVars>>

\* for data in reader.read_new_lines(): pass
ReadNewLines ==
    /\ LET out == read_new_lines(logFile, position)
       IN  /\ position' = out.position
           /\ yielded' = out.yielded
           /\ readReset' = out.reset
    /\ readParity' = ~readParity
    /\ recsAtRead' = Len(fileRecs)
    /\ appendedOnly' = TRUE
    /\ UNCHANGED <<logFile, fileRecs>>
    /\ UNCHANGED <<trackerVars, satVars, storeVars, searchVars, monitorVars,
                   mainVars, signalVars,
                   watchVars,
                   threadVars,
                   orderVars,
                   parseVars>>

Replacements == {<<>>} \cup {<<r>> : r \in LogRecords}
                  \cup {<<r, q>> : r \in LogRecords, q \in LogRecords}

NextReader ==
    \/ \E r \in LogRecords : AppendRecord(r)
    \/ \E r \in LogRecords : AppendPartial(r)
    \/ CompletePartial
    \/ AppendBlank
    \/ \E recs \in Replacements : ReplaceLog(recs)
    \/ ReadNewLines

SpecReader == InitReader /\ [][NextReader]_vars

----------------------------------------------------------------------------
(* OutputWriter *)

\* The lines of a best-records file: the JSON text of a record, a blank
\* line, a line json.loads rejects, the text of a JSON value that is no
\* object.
BlankLine == [k |-> "blank", r |-> NoRecord]
BadLine == [k |-> "bad", r |-> NoRecord]

\* TestRecord.from_dict(json.loads(line)) of the line json.dumps wrote for a
\* record: its six fields.
from_dict(data) ==
    TestRecord(data.input_len, data.output_len, data.concurrency,
               data.mean_ttft_ms, data.mean_tpot_ms, data.mean_e2el_ms)

\* self.best_records is a dict in insertion order: the sequence of its values,
\* at most one per io_key.
KeyIndex(d, io_key) ==
    IF \E i \in 1..Len(d) : IoKey(d[i]) = io_key
    THEN CHOOSE i \in 1..Len(d) : IoKey(d[i]) = io_key
    ELSE 0

\* An assignment that is lost: the map stays as it was.
ordered_set_lost(d, record) == d

\* An assignment that adds an entry even when the io_key has one.
ordered_set_append(d, record) == Append(d, record)

\* self.best_records[io_key] = record
OrderedSet(d, record) ==
    LET i == KeyIndex(d, IoKey(record))
    IN  IF i = 0 THEN Append(d, record)
        ELSE [d EXCEPT ![i] = record]

\* write_record's test without its comparison: only a new io_key is an
\* update.
need_update_new_key(d, record) == KeyIndex(d, IoKey(record)) = 0

\* write_record's test with >= in place of >.
need_update_or_equal(d, record) ==
    LET i == KeyIndex(d, IoKey(record))
    IN  IF i = 0 THEN TRUE ELSE record.concurrency >= d[i].concurrency

\* need_update of write_record: the io_key is new, or the record's
\* concurrency is greater than the stored one.
need_update(d, record) ==
    LET i == KeyIndex(d, IoKey(record))
    IN  IF i = 0 THEN TRUE ELSE record.concurrency > d[i].concurrency

\* _load_existing_bests: blank lines and lines json.loads rejects are
\* skipped; a line that decodes to a value that is no object raises in
\* from_dict an error the inner handler does not catch, and the outer one
\* ends the loading there; of the records of an io_key the first one of the
\* greatest concurrency is kept.
RECURSIVE load_existing_bests(_, _)
load_existing_bests(lines, d) ==
    IF lines = <<>> THEN d
    ELSE LET line == Head(lines)
         IN  IF line.k \in {"blank", "bad"}
             THEN load_existing_bests(Tail(lines), d)
             ELSE IF line.k = "nondict" THEN d
             ELSE LET record == from_dict(line.r[1])
                  IN  IF need_update(d, record)
                      THEN load_existing_bests(Tail(lines),
                                               OrderedSet(d, record))
                      ELSE load_existing_bests(Tail(lines), d)

\* What _rewrite_file writes: one line per record of self.best_records.
FileLines(d) == [i \in 1..Len(d) |-> Json(d[i])]

\* The temporary file written in place of the target.
write_temp_in_place(file, lines) ==
    [outFile |-> <<>>, tmpFile |-> <<lines>>]

\* open(temp_file, 'w') and the writes to it: the target is not touched.
write_temp(file, lines) ==
    [outFile |-> file, tmpFile |-> <<lines>>]

\* The reader is called again and again, as the monitor loop does.
SpecReaderFair == SpecReader /\ WF_vars(ReadNewLines)

----------------------------------------------------------------------------
(* The OutputWriter, step by step, beside readers of its file *)

\* The records given to write_record.
StoreRecords == {r \in Records : r.mean_ttft_ms = LowMs}

StoreLines == {Json(r) : r \in StoreRecords} \cup {BlankLine, BadLine, NonDict}

\* The files OutputWriter may find at its path.
InitialFiles ==
    UNION {[1..n -> StoreLines] : n \in 0..MaxFileLines}

\* OutputWriter(filepath), over a file that exists or not. The files include
\* those an earlier OutputWriter of the same path leaves, so that a later
\* construction is the start of a behaviour.
InitStore ==
    /\ TrackerIdle
    /\ SatIdle
    /\ MainIdle
    /\ SignalIdle
    /\ ParseIdle
    /\ OrderIdle
    /\ ThreadsIdle
    /\ WatchIdle
    /\ ReaderIdle
    /\ SearchIdle
    /\ MonitorIdle
    /\ outFile \in InitialFiles
    /\ tmpFile = <<>>
    /\ best_records = load_existing_bests(outFile, <<>>)
    /\ storePc = "idle"
    /\ prevFile = outFile
    /\ fellBack = FALSE
    /\ lastPut = NoRecord
    /\ putParity = FALSE

\* write_record, to the call of _rewrite_file (the lock is held until the
\* rewrite ends)
WriteRecord(record) ==
    /\ storePc = "idle"
    /\ lastPut' = Some(record)
    /\ putParity' = ~putParity
    /\ prevFile' = outFile
    /\ fellBack' = FALSE
    /\ IF need_update(best_records, record)
       THEN /\ best_records' = OrderedSet(best_records, record)
            /\ storePc' = "rewrite"
       ELSE UNCHANGED <<best_records, storePc>>
    /\ UNCHANGED <<outFile, tmpFile>>
    /\ UNCHANGED <<trackerVars, satVars, readerVars, searchVars, monitorVars,
                   mainVars, signalVars,
                   watchVars,
                   threadVars,
                   orderVars,
                   parseVars>>

\* _rewrite_file: the temporary file is written
WriteTemp ==
    /\ storePc = "rewrite"
    /\ LET out == write_temp(outFile, FileLines(best_records))
       IN  /\ outFile' = out.outFile
           /\ tmpFile' = out.tmpFile
    /\ storePc' = "replace"
    /\ UNCHANGED <<best_records, prevFile, fellBack, lastPut, putParity>>
    /\ UNCHANGED <<trackerVars, satVars, readerVars, searchVars, monitorVars,
                   mainVars, signalVars,
                   watchVars,
                   threadVars,
                   orderVars,
                   parseVars>>

\* _rewrite_file: opening or writing the temporary file raises
WriteTempFails ==
    /\ storePc = "rewrite"
    /\ storePc' = "fallback"
    /\ fellBack' = TRUE
    /\ UNCHANGED <<outFile, tmpFile, best_records, prevFile, lastPut,
                   putParity>>
    /\ UNCHANGED <<trackerVars, satVars, readerVars, searchVars, monitorVars,
                   mainVars, signalVars,
                   watchVars,
                   threadVars,
                   orderVars,
                   parseVars>>

\* _rewrite_file: os.replace(temp_file, self.filepath)
Replace ==
    /\ storePc = "replace"
    /\ outFile' = tmpFile[1]
    /\ tmpFile' = <<>>
    /\ storePc' = "idle"
    /\ UNCHANGED <<best_records, prevFile, fellBack, lastPut, putParity>>
    /\ UNCHANGED <<trackerVars, satVars, readerVars, searchVars, monitorVars,
                   mainVars, signalVars,
                   watchVars,
                   threadVars,
                   orderVars,
                   parseVars>>

\* _rewrite_file: os.replace raises
ReplaceFails ==
    /\ storePc = "replace"
    /\ storePc' = "fallback"
    /\ fellBack' = TRUE
    /\ UNCHANGED <<outFile, tmpFile, best_records, prevFile, lastPut,
                   putParity>>
    /\ UNCHANGED <<trackerVars, satVars, readerVars, searchVars, monitorVars,
                   mainVars, signalVars,
                   watchVars,
                   threadVars,
                   orderVars,
                   parseVars>>

\* _rewrite_file, after an error: open(self.filepath, 'w') truncates the file
FallbackOpen ==
    /\ storePc = "fallback"
    /\ outFile' = <<>>
    /\ storePc' = "fallback_write"
    /\ UNCHANGED <<tmpFile, best_records, prevFile, fellBack, lastPut,
                   putParity>>
    /\ UNCHANGED <<trackerVars, satVars, readerVars, searchVars, monitorVars,
                   mainVars, signalVars,
                   watchVars,
                   threadVars,
                   orderVars,
                   parseVars>>

\* _rewrite_file, after an error: one more line reaches the file
FallbackWriteLine ==
    /\ storePc = "fallback_write"
    /\ Len(outFile) < Len(best_records)
    /\ outFile' = Append(outFile, FileLines(best_records)[Len(outFile) + 1])
    /\ UNCHANGED <<tmpFile, best_records, storePc, prevFile, fellBack,
                   lastPut, putParity>>
    /\ UNCHANGED <<trackerVars, satVars, readerVars, searchVars, monitorVars,
                   mainVars, signalVars,
                   watchVars,
                   threadVars,
                   orderVars,
                   parseVars>>

\* _rewrite_file, after an error: the file is closed with every line written
FallbackClose ==
    /\ storePc = "fallback_write"
    /\ Len(outFile) = Len(best_records)
    /\ storePc' = "idle"
    /\ UNCHANGED <<outFile, tmpFile, best_records, prevFile, fellBack,
                   lastPut, putParity>>
    /\ UNCHANGED <<trackerVars, satVars, readerVars, searchVars, monitorVars,
                   mainVars, signalVars,
                   watchVars,
                   threadVars,
                   orderVars,
                   parseVars>>

\* _rewrite_file, after an error: the direct write raises too, and
\* _rewrite_file returns
FallbackFails ==
    /\ storePc \in {"fallback", "fallback_write"}
    /\ storePc' = "idle"
    /\ UNCHANGED <<outFile, tmpFile, best_records, prevFile, fellBack,
                   lastPut, putParity>>
    /\ UNCHANGED <<trackerVars, satVars, readerVars, searchVars, monitorVars,
                   mainVars, signalVars,
                   watchVars,
                   threadVars,
                   orderVars,
                   parseVars>>

NextStore ==
    \/ \E record \in StoreRecords : WriteRecord(record)
    \/ WriteTemp
    \/ WriteTempFails
    \/ Replace
    \/ ReplaceFails
    \/ FallbackOpen
    \/ FallbackWriteLine
    \/ FallbackClose
    \/ FallbackFails

SpecStore == InitStore /\ [][NextStore]_vars

----------------------------------------------------------------------------
(* write_record as one step *)

\* The file after _rewrite_file: the lines of the records when the rename or
\* the direct overwrite completes, the file as it was when neither the
\* temporary file nor the target could be written, and a prefix of the lines
\* when the direct overwrite raises on the way.
rewrite_file(d, file) ==
    {FileLines(d), file} \cup {SubSeq(FileLines(d), 1, n) : n \in 0..Len(d)}

\* write_record: the possible [best_records, outFile] after the call.
write_record(d, file, record) ==
    IF need_update(d, record)
    THEN {[best_records |-> OrderedSet(d, record), outFile |-> f] :
             f \in rewrite_file(OrderedSet(d, record), file)}
    ELSE {[best_records |-> d, outFile |-> file]}

----------------------------------------------------------------------------
(* BinarySearchMode *)

\* The record the harness appends to the log for a probe of batch c.
HarnessRecord(latency, c) ==
    TestRecord(128, 128, c, latency[c], None, None)

\* A record left in the log by an earlier run.
StaleRecord == TestRecord(128, 128, 1, LowMs, None, None)

\* A search that probes its lower bound.
midpoint_lower(l, h) == l

\* A search that probes its upper bound.
midpoint_upper(l, h) == h

\* mid = (lo + hi) // 2
midpoint(l, h) == (l + h) \div 2

\* get_latest_result: the reader, reset to 0, reads the whole log and the
\* last value yielded is the result; None when nothing was yielded, or when
\* from_dict raises on a value that is no dict.
latest[values \in Seq(Chunks)] ==
    IF values = <<>> THEN NoRecord
    ELSE IF values[Len(values)].k = "dict"
    THEN Some(from_dict(values[Len(values)].r[1]))
    ELSE NoRecord

get_latest_result(file) ==
    [position |-> read_new_lines(file, 0).position,
     yielded |-> read_new_lines(file, 0).yielded,
     record |-> latest[read_new_lines(file, 0).yielded]]

\* The end of an iteration with hi = mid - 2 in place of mid - 1.
narrow_too_far(l, h, best_rec, record, thr) ==
    LET mid == midpoint(l, h)
    IN  IF record = NoRecord
        THEN [lo |-> l, hi |-> mid - 2, best_record |-> best_rec, put |-> FALSE]
        ELSE IF satisfy(record[1], thr)
        THEN [lo |-> mid + 1, hi |-> h, best_record |-> record, put |-> TRUE]
        ELSE [lo |-> l, hi |-> mid - 2, best_record |-> best_rec, put |-> FALSE]

\* The end of an iteration that keeps the first running best.
narrow_first_best(l, h, best_rec, record, thr) ==
    LET mid == midpoint(l, h)
    IN  IF record = NoRecord
        THEN [lo |-> l, hi |-> mid - 1, best_record |-> best_rec, put |-> FALSE]
        ELSE IF satisfy(record[1], thr)
        THEN [lo |-> mid + 1, hi |-> h,
              best_record |-> IF best_rec = NoRecord THEN record ELSE best_rec,
              put |-> TRUE]
        ELSE [lo |-> l, hi |-> mid - 1, best_record |-> best_rec, put |-> FALSE]

\* The end of an iteration of run: no result or a result that fails the
\* threshold narrows to hi = mid - 1; a result that satisfies it becomes the
\* running best, is written, and the search goes on from lo = mid + 1.
narrow(l, h, best_rec, record, thr) ==
    LET mid == midpoint(l, h)
    IN  IF record = NoRecord
        THEN [lo |-> l, hi |-> mid - 1, best_record |-> best_rec, put |-> FALSE]
        ELSE IF satisfy(record[1], thr)
        THEN [lo |-> mid + 1, hi |-> h, best_record |-> record, put |-> TRUE]
        ELSE [lo |-> l, hi |-> mid - 1, best_record |-> best_rec, put |-> FALSE]

\* The files BinarySearchMode may find at its output path.
SearchInitialFiles == {<<>>, <<Json(StaleRecord)>>}

\* BinarySearchMode(args, threshold) with a command template, over a log
\* that exists, and the first lines of run
InitSearch ==
    /\ SatIdle
    /\ MainIdle
    /\ SignalIdle
    /\ ParseIdle
    /\ OrderIdle
    /\ ThreadsIdle
    /\ WatchIdle
    /\ MonitorIdle
    /\ min_batch \in 1..MaxBatch
    /\ max_batch \in 1..MaxBatch
    /\ lo = min_batch
    /\ hi = max_batch
    /\ best_record = NoRecord
    /\ iteration = 0
    /\ searchPc = "loop"
    /\ profile \in [1..MaxBatch -> {LowMs, HighMs}]
    /\ allEmitted = TRUE
    /\ self_threshold \in Thresholds
    /\ seen = {}
    /\ best = EmptyDict
    /\ max_seen_size = 0
    /\ lastCall = NoCall
    /\ callParity = FALSE
    /\ maxAccepted = [k \in IoKeys |-> <<>>]
    /\ fileRecs \in {<<>>, <<StaleRecord>>}
    /\ logFile = FileOf(fileRecs)
    /\ position = 0
    /\ yielded = <<>>
    /\ readReset = FALSE
    /\ readParity = FALSE
    /\ recsAtRead = 0
    /\ appendedOnly = TRUE
    /\ outFile \in SearchInitialFiles
    /\ tmpFile = <<>>
    /\ best_records = load_existing_bests(outFile, <<>>)
    /\ storePc = "idle"
    /\ prevFile = outFile
    /\ fellBack = FALSE
    /\ lastPut = NoRecord
    /\ putParity = FALSE

\* One iteration of the loop of run, the command having appended the chunks
\* emitted to the log: reader.reset(), run_batch(mid), get_latest_result()
\* and the update of the bounds.
Iteration(emitted) ==
    /\ searchPc = "loop"
    /\ lo <= hi
    /\ iteration' = iteration + 1
    /\ logFile' = logFile \o emitted
    /\ \E got \in {get_latest_result(logFile')} :
       \E out \in {narrow(lo, hi, best_record, got.record, self_threshold)} :
           /\ position' = got.position
           /\ lo' = out.lo
           /\ hi' = out.hi
           /\ best_record' = out.best_record
           /\ IF out.put
              THEN /\ \E w \in write_record(best_records, outFile,
                                            got.record[1]) :
                        /\ best_records' = w.best_records
                        /\ outFile' = w.outFile
                   /\ lastPut' = got.record
                   /\ putParity' = ~putParity
                   /\ prevFile' = outFile
              ELSE UNCHANGED <<best_records, outFile, lastPut, putParity,
                               prevFile>>
    /\ UNCHANGED <<yielded, readReset, readParity, recsAtRead, appendedOnly>>
    /\ UNCHANGED <<tmpFile, storePc, fellBack>>
    /\ UNCHANGED <<min_batch, max_batch, searchPc, profile>>
    /\ UNCHANGED <<trackerVars, satVars, monitorVars,
                   mainVars, signalVars,
                   watchVars,
                   threadVars,
                   orderVars,
                   parseVars>>

\* An iteration whose command appends the record of its probe.
ProbeEmits ==
    /\ lo <= hi
    /\ LET record == HarnessRecord(profile, midpoint(lo, hi))
       IN  /\ fileRecs' = Append(fileRecs, record)
           /\ UNCHANGED allEmitted
           /\ Iteration(<<Json(record), Nl>>)

\* An iteration whose command fails and appends nothing.
ProbeEmitsNothing ==
    /\ allEmitted' = FALSE
    /\ UNCHANGED fileRecs
    /\ Iteration(<<>>)

\* The loop ends: lo > hi.
SearchDone ==
    /\ searchPc = "loop"
    /\ lo > hi
    /\ searchPc' = "done"
    /\ UNCHANGED <<min_batch, max_batch, lo, hi, best_record, iteration,
                   profile, allEmitted>>
    /\ UNCHANGED <<trackerVars, satVars, readerVars, storeVars, monitorVars,
                   mainVars, signalVars,
                   watchVars,
                   threadVars,
                   orderVars,
                   parseVars>>

NextSearch ==
    \/ ProbeEmits
    \/ ProbeEmitsNothing
    \/ SearchDone

SpecSearch == InitSearch /\ [][NextSearch]_vars

\* Every command the search runs returns.
SpecSearchFair == SpecSearch /\ WF_vars(NextSearch)

----------------------------------------------------------------------------
(* MonitorMode *)

\* ResultManager(): the default max_seen_size
DefaultMaxSeenSize == 10000

\* The records the monitored harness appends: one scenario, every
\* concurrency, a ttft under or over the ceiling.
MonitorRecords ==
    {TestRecord(128, 128, c, t, None, None) :
        c \in Concurrencies, t \in {LowMs, HighMs}}

\* The lines the producer appends: a record, or a value that is no object.
MonitorLines == {Json(r) : r \in MonitorRecords} \cup {NonDict}

\* SignalWriter.write_best: the payload written (less its timestamp).
SignalPayload(record) ==
    [input_len |-> record.input_len, output_len |-> record.output_len,
     best_batch |-> record.concurrency]

\* An open(filepath, "a") in place of the "w": the payload is added to what
\* the file holds.
write_best_append(file, record) == Append(file, SignalPayload(record))

\* SignalWriter.write_best: open(filepath, "w") empties the file, json.dump
\* writes the one payload.
write_best(file, record) == <<SignalPayload(record)>>

\* MonitorMode(args, threshold) over a log that exists, args.output being
\* one of files
InitMonitorOver(files) ==
    /\ SatIdle
    /\ SignalIdle
    /\ ParseIdle
    /\ OrderIdle
    /\ ThreadsIdle
    /\ WatchIdle
    /\ mainPc = "idle"
    /\ exitCode = NoExit
    /\ logExists = TRUE
    /\ has_template = TRUE
    /\ waitParity = FALSE
    /\ args_max_seen_size = MaxCap
    /\ SearchIdle
    /\ ReaderIdle
    /\ self_threshold \in Thresholds
    /\ seen = {}
    /\ best = EmptyDict
    /\ max_seen_size = DefaultMaxSeenSize
    /\ lastCall = NoCall
    /\ callParity = FALSE
    /\ maxAccepted = [k \in IoKeys |-> <<>>]
    /\ outFile \in files
    /\ tmpFile = <<>>
    /\ best_records = load_existing_bests(outFile, <<>>)
    /\ storePc = "idle"
    /\ prevFile = outFile
    /\ fellBack = FALSE
    /\ lastPut = NoRecord
    /\ putParity = FALSE
    /\ running = FALSE
    /\ monPc = "constructed"
    /\ pending = <<>>
    /\ signalFile = NoRecord
    /\ signalled = FALSE
    /\ processedRecs = {}
    /\ freshRecs = {}
    /\ pendingAtSignal = <<>>

\* MonitorMode(args, threshold) over a log that exists
InitMonitor == InitMonitorOver(SearchInitialFiles)

\* The harness appends a line to the log.
ProducerAppends(line) ==
    /\ monPc # "idle"
    /\ Len(logFile) < 2 * MaxMonitorLines
    /\ logFile' = logFile \o <<line, Nl>>
    /\ fileRecs' = IF line.k = "json" THEN Append(fileRecs, line.r[1])
                   ELSE fileRecs
    /\ UNCHANGED <<position, yielded, readReset, readParity, recsAtRead,
                   appendedOnly>>
    /\ UNCHANGED <<trackerVars, satVars, storeVars, searchVars, monitorVars,
                   mainVars, signalVars,
                   watchVars,
                   threadVars,
                   orderVars,
                   parseVars>>

\* run, up to its loop: self.running = True
MonitorRun ==
    /\ monPc = "constructed"
    /\ running' = TRUE
    /\ monPc' = "poll"
    /\ UNCHANGED <<pending, signalFile, signalled, processedRecs, freshRecs,
                   pendingAtSignal>>
    /\ UNCHANGED <<trackerVars, satVars, readerVars, storeVars, searchVars,
                   mainVars, signalVars,
                   watchVars,
                   threadVars,
                   orderVars,
                   parseVars>>

\* A handler that raises: the for loop and run are left where they are.
SignalHandlerRaises ==
    /\ monPc \in {"constructed", "poll", "process"}
    /\ ~signalled
    /\ signalled' = TRUE
    /\ running' = FALSE
    /\ pendingAtSignal' = pending
    /\ pending' = <<>>
    /\ monPc' = "stopped"
    /\ UNCHANGED <<signalFile, processedRecs, freshRecs>>
    /\ UNCHANGED <<trackerVars, satVars, readerVars, storeVars, searchVars,
                   mainVars, signalVars,
                   watchVars,
                   threadVars,
                   orderVars,
                   parseVars>>

\* _signal_handler
SignalHandler ==
    /\ monPc \in {"constructed", "poll", "process"}
    /\ ~signalled
    /\ signalled' = TRUE
    /\ running' = FALSE
    /\ pendingAtSignal' = pending
    /\ UNCHANGED <<monPc, pending, signalFile, processedRecs, freshRecs>>
    /\ UNCHANGED <<trackerVars, satVars, readerVars, storeVars, searchVars,
                   mainVars, signalVars,
                   watchVars,
                   threadVars,
                   orderVars,
                   parseVars>>

\* while self.running: the for loop starts, and read_new_lines reads the
\* file from the position to its end before it yields its first value.
MonitorPoll ==
    /\ monPc = "poll"
    /\ running
    /\ LET out == read_new_lines(logFile, position)
       IN  /\ position' = out.position
           /\ pending' = out.yielded
    /\ monPc' = "process"
    /\ UNCHANGED <<logFile, fileRecs, yielded, readReset, readParity,
                   recsAtRead, appendedOnly>>
    /\ UNCHANGED <<running, signalFile, signalled, processedRecs, freshRecs,
                   pendingAtSignal>>
    /\ UNCHANGED <<trackerVars, satVars, storeVars, searchVars,
                   mainVars, signalVars,
                   watchVars,
                   threadVars,
                   orderVars,
                   parseVars>>

\* _process_record on a value that is no object: from_dict raises, the
\* handler catches.
ProcessNonDict ==
    /\ monPc = "process"
    /\ pending # <<>>
    /\ Head(pending).k # "dict"
    /\ pending' = Tail(pending)
    /\ UNCHANGED <<running, monPc, signalFile, signalled, processedRecs,
                   freshRecs,
                   pendingAtSignal>>
    /\ UNCHANGED <<trackerVars, satVars, readerVars, storeVars, searchVars,
                   mainVars, signalVars,
                   watchVars,
                   threadVars,
                   orderVars,
                   parseVars>>

\* A test that takes any tracked best for a confirmed one.
confirms_any(current_best, record) == current_best # NoRecord

\* if current_best: if current_best.concurrency < record.concurrency
confirms(current_best, record) ==
    /\ current_best # NoRecord
    /\ current_best[1].concurrency < record.concurrency

\* _process_record on a record: a duplicate is dropped; a record that
\* updates the tracked best is written to the best-records file; one that
\* does not, and whose concurrency is above the tracked best's, has the
\* tracked best written to the signal file. is_new is what add_record
\* returned and announced the record given to write_best, if any.
process_record(record, is_new, announced) ==
    \E added \in add_record(seen, max_seen_size, record) :
    \E upd \in {update_best(best, record, self_threshold)} :
    \E current_best \in {DictGet(best, IoKey(record))} :
       /\ is_new = added.ret
       /\ seen' = added.seen
       /\ IF ~added.ret
          THEN /\ announced = NoRecord
               /\ UNCHANGED <<best, best_records, outFile, lastPut,
                              putParity, prevFile, signalFile>>
          ELSE /\ best' = upd.best
               /\ IF upd.updated
                  THEN /\ \E w \in write_record(best_records, outFile,
                                                record) :
                            /\ best_records' = w.best_records
                            /\ outFile' = w.outFile
                       /\ lastPut' = Some(record)
                       /\ putParity' = ~putParity
                       /\ prevFile' = outFile
                       /\ announced = NoRecord
                       /\ UNCHANGED signalFile
                  ELSE /\ announced = IF confirms(current_best, record)
                                      THEN current_best ELSE NoRecord
                       /\ signalFile' =
                            IF announced = NoRecord THEN signalFile
                            ELSE write_best(signalFile, announced[1])
                       /\ UNCHANGED <<best_records, outFile, lastPut,
                                      putParity, prevFile>>

\* _process_record on the next value yielded by read_new_lines
ProcessRecord ==
    /\ monPc = "process"
    /\ pending # <<>>
    /\ Head(pending).k = "dict"
    /\ pending' = Tail(pending)
    /\ \E record \in {from_dict(Head(pending).r[1])} :
       \E is_new \in BOOLEAN :
       \E announced \in {NoRecord, DictGet(best, IoKey(record))} :
          /\ process_record(record, is_new, announced)
          /\ processedRecs' = processedRecs \cup {record}
          /\ freshRecs' = IF is_new THEN freshRecs \cup {record}
                          ELSE freshRecs
    /\ UNCHANGED <<running, monPc, signalled, pendingAtSignal>>
    /\ UNCHANGED <<max_seen_size, self_threshold, lastCall, callParity,
                   maxAccepted>>
    /\ UNCHANGED <<tmpFile, storePc, fellBack>>
    /\ UNCHANGED <<satVars, readerVars, searchVars,
                   mainVars, signalVars,
                   watchVars,
                   threadVars,
                   orderVars,
                   parseVars>>

\* The for loop is over: the sleep, and back to the test of the while.
MonitorSleep ==
    /\ monPc = "process"
    /\ pending = <<>>
    /\ monPc' = "poll"
    /\ UNCHANGED <<running, pending, signalFile, signalled, processedRecs,
                   freshRecs,
                   pendingAtSignal>>
    /\ UNCHANGED <<trackerVars, satVars, readerVars, storeVars, searchVars,
                   mainVars, signalVars,
                   watchVars,
                   threadVars,
                   orderVars,
                   parseVars>>

\* while self.running is false: run returns.
MonitorStop ==
    /\ monPc = "poll"
    /\ ~running
    /\ monPc' = "stopped"
    /\ UNCHANGED <<running, pending, signalFile, signalled, processedRecs,
                   freshRecs,
                   pendingAtSignal>>
    /\ UNCHANGED <<trackerVars, satVars, readerVars, storeVars, searchVars,
                   mainVars, signalVars,
                   watchVars,
                   threadVars,
                   orderVars,
                   parseVars>>

NextMonitor ==
    \/ \E line \in MonitorLines : ProducerAppends(line)
    \/ MonitorRun
    \/ SignalHandler
    \/ MonitorPoll
    \/ ProcessNonDict
    \/ ProcessRecord
    \/ MonitorSleep
    \/ MonitorStop

SpecMonitor == InitMonitor /\ [][NextMonitor]_vars

\* MonitorMode(args, threshold) started with --threshold ttft:Ceiling where
\* no best-records file exists
InitMonitorTtft ==
    /\ InitMonitor
    /\ self_threshold = TtftThreshold
    /\ outFile = <<>>

SpecMonitorTtft == InitMonitorTtft /\ [][NextMonitor]_vars

\* The best-records files the monitor is started over: none, or the file an
\* earlier run left with a best of the scenario, of the greatest
\* concurrency.
SeededFiles ==
    {<<>>, <<Json(TestRecord(128, 128, MaxConc, LowMs, None, None))>>}

\* MonitorMode(args, threshold) started with --threshold ttft:Ceiling over
\* one of these files
InitMonitorSeeded ==
    /\ InitMonitorOver(SeededFiles)
    /\ self_threshold = TtftThreshold

SpecMonitorSeeded == InitMonitorSeeded /\ [][NextMonitor]_vars

----------------------------------------------------------------------------
(* BinarySearchMode over the default bounds *)

\* --min-batch and --max-batch when the command line gives none
DefaultMinBatch == 1
DefaultMaxBatch == 128

\* A harness whose ttft is under the ceiling up to half of the default
\* maximum and over it above.
HalfProfile ==
    [c \in DefaultMinBatch..DefaultMaxBatch |->
        IF 2 * c <= DefaultMaxBatch THEN LowMs ELSE HighMs]

\* BinarySearchMode(args, threshold) with the default bounds, the threshold
\* ttft:Ceiling and the harness HalfProfile, and the first lines of run
InitDefaultSearch ==
    /\ SatIdle
    /\ MainIdle
    /\ SignalIdle
    /\ ParseIdle
    /\ OrderIdle
    /\ ThreadsIdle
    /\ WatchIdle
    /\ MonitorIdle
    /\ min_batch = DefaultMinBatch
    /\ max_batch = DefaultMaxBatch
    /\ lo = min_batch
    /\ hi = max_batch
    /\ best_record = NoRecord
    /\ iteration = 0
    /\ searchPc = "loop"
    /\ profile = HalfProfile
    /\ allEmitted = TRUE
    /\ self_threshold = TtftThreshold
    /\ seen = {}
    /\ best = EmptyDict
    /\ max_seen_size = 0
    /\ lastCall = NoCall
    /\ callParity = FALSE
    /\ maxAccepted = [k \in IoKeys |-> <<>>]
    /\ fileRecs \in {<<>>, <<StaleRecord>>}
    /\ logFile = FileOf(fileRecs)
    /\ position = 0
    /\ yielded = <<>>
    /\ readReset = FALSE
    /\ readParity = FALSE
    /\ recsAtRead = 0
    /\ appendedOnly = TRUE
    /\ outFile \in SearchInitialFiles
    /\ tmpFile = <<>>
    /\ best_records = load_existing_bests(outFile, <<>>)
    /\ storePc = "idle"
    /\ prevFile = outFile
    /\ fellBack = FALSE
    /\ lastPut = NoRecord
    /\ putParity = FALSE

SpecDefaultSearch == InitDefaultSearch /\ [][NextSearch]_vars

\* Every command the search runs returns.
SpecDefaultSearchFair == SpecDefaultSearch /\ WF_vars(NextSearch)

\* The steps of run itself, as against those of the producer of the log and
\* of the sender of signals.
MonitorLoopStep ==
    \/ MonitorRun
    \/ MonitorPoll
    \/ ProcessNonDict
    \/ ProcessRecord
    \/ MonitorSleep
    \/ MonitorStop

\* The thread of run keeps running: its sleeps and its calls return.
SpecMonitorFair == SpecMonitor /\ WF_vars(MonitorLoopStep)

----------------------------------------------------------------------------
(* main in binary mode *)

\* main up to the construction of BinarySearchMode: the arguments are
\* parsed; the log may not exist yet
InitBinaryMain ==
    /\ SatIdle
    /\ SignalIdle
    /\ ParseIdle
    /\ OrderIdle
    /\ ThreadsIdle
    /\ WatchIdle
    /\ MonitorIdle
    /\ mainPc = "start"
    /\ exitCode = NoExit
    /\ logExists \in BOOLEAN
    /\ has_template \in BOOLEAN
    /\ waitParity = FALSE
    /\ args_max_seen_size = 0
    /\ min_batch \in 1..MaxBatch
    /\ max_batch \in 1..MaxBatch
    /\ lo = 1
    /\ hi = 1
    /\ best_record = NoRecord
    /\ iteration = 0
    /\ searchPc = "idle"
    /\ profile \in [1..MaxBatch -> {LowMs, HighMs}]
    /\ allEmitted = TRUE
    /\ self_threshold \in Thresholds
    /\ seen = {}
    /\ best = EmptyDict
    /\ max_seen_size = 0
    /\ lastCall = NoCall
    /\ callParity = FALSE
    /\ maxAccepted = [k \in IoKeys |-> <<>>]
    /\ fileRecs \in IF logExists THEN {<<>>, <<StaleRecord>>} ELSE {<<>>}
    /\ logFile = FileOf(fileRecs)
    /\ position = 0
    /\ yielded = <<>>
    /\ readReset = FALSE
    /\ readParity = FALSE
    /\ recsAtRead = 0
    /\ appendedOnly = TRUE
    /\ outFile \in SearchInitialFiles
    /\ tmpFile = <<>>
    /\ best_records = <<>>
    /\ storePc = "idle"
    /\ prevFile = outFile
    /\ fellBack = FALSE
    /\ lastPut = NoRecord
    /\ putParity = FALSE

\* What main leaves alone before run.
SetupFrame ==
    /\ UNCHANGED <<logExists, has_template, args_max_seen_size>>
    /\ UNCHANGED <<outFile, tmpFile, storePc, prevFile, fellBack, lastPut,
                   putParity>>
    /\ UNCHANGED <<position, yielded, readReset, readParity, recsAtRead,
                   appendedOnly>>
    /\ UNCHANGED <<trackerVars, satVars, monitorVars, signalVars,
                   watchVars,
                   threadVars,
                   orderVars,
                   parseVars>>

\* Path(args.output).parent.mkdir(...) raises: main prints the error and
\* exits with code 1.
MainMkdirFails ==
    /\ mainPc = "start"
    /\ mainPc' = "exited"
    /\ exitCode' = 1
    /\ UNCHANGED <<waitParity, best_records, logFile, fileRecs, searchVars>>
    /\ SetupFrame

\* The output directory is made and BinarySearchMode.__init__ constructs its
\* OutputWriter, which loads the bests of the file.
MainConstructsWriter ==
    /\ mainPc = "start"
    /\ mainPc' = "check_file"
    /\ best_records' = load_existing_bests(outFile, <<>>)
    /\ UNCHANGED <<exitCode, waitParity, logFile, fileRecs, searchVars>>
    /\ SetupFrame

\* JsonTailReader._check_file while the log does not exist: a sleep.
CheckFileWaits ==
    /\ mainPc = "check_file"
    /\ ~logExists
    /\ waitParity' = ~waitParity
    /\ UNCHANGED <<mainPc, exitCode, best_records, logFile, fileRecs,
                   searchVars>>
    /\ SetupFrame

\* JsonTailReader._check_file finds the log.
CheckFilePasses ==
    /\ mainPc = "check_file"
    /\ logExists
    /\ mainPc' = "validate"
    /\ UNCHANGED <<exitCode, waitParity, best_records, logFile, fileRecs,
                   searchVars>>
    /\ SetupFrame

\* Someone creates the log the reader waits for.
LogAppears(recs) ==
    /\ mainPc \in {"start", "check_file"}
    /\ ~logExists
    /\ logExists' = TRUE
    /\ fileRecs' = recs
    /\ logFile' = FileOf(recs)
    /\ UNCHANGED <<mainPc, exitCode, has_template, waitParity,
                   args_max_seen_size>>
    /\ UNCHANGED <<position, yielded, readReset, readParity, recsAtRead,
                   appendedOnly>>
    /\ UNCHANGED <<trackerVars, satVars, storeVars, searchVars, monitorVars,
                   signalVars,
                   watchVars,
                   threadVars,
                   orderVars,
                   parseVars>>

\* if not args.bench_cmd_template: raise ValueError; main prints the error
\* and exits with code 1.
ValidateFails ==
    /\ mainPc = "validate"
    /\ ~has_template
    /\ mainPc' = "exited"
    /\ exitCode' = 1
    /\ UNCHANGED <<waitParity, best_records, logFile, fileRecs, searchVars>>
    /\ SetupFrame

\* The template is given: searcher.run() starts.
MainRunStarts ==
    /\ mainPc = "validate"
    /\ has_template
    /\ mainPc' = "run"
    /\ lo' = min_batch
    /\ hi' = max_batch
    /\ best_record' = NoRecord
    /\ iteration' = 0
    /\ searchPc' = "loop"
    /\ UNCHANGED <<min_batch, max_batch, profile, allEmitted>>
    /\ UNCHANGED <<exitCode, waitParity, best_records, logFile, fileRecs>>
    /\ SetupFrame

\* run returns and main with it.
MainReturns ==
    /\ mainPc = "run"
    /\ searchPc = "done"
    /\ mainPc' = "exited"
    /\ exitCode' = 0
    /\ UNCHANGED <<waitParity, best_records, logFile, fileRecs, searchVars>>
    /\ SetupFrame

\* The steps of the process itself.
BinaryMainStep ==
    \/ MainMkdirFails
    \/ MainConstructsWriter
    \/ CheckFileWaits
    \/ CheckFilePasses
    \/ ValidateFails
    \/ MainRunStarts
    \/ ProbeEmits
    \/ ProbeEmitsNothing
    \/ SearchDone
    \/ MainReturns

NextBinaryMain ==
    \/ BinaryMainStep
    \/ \E recs \in {<<>>, <<StaleRecord>>} : LogAppears(recs)

SpecBinaryMain == InitBinaryMain /\ [][NextBinaryMain]_vars

\* The process keeps running: its sleeps and its commands return.
SpecBinaryMainFair == SpecBinaryMain /\ WF_vars(BinaryMainStep)

----------------------------------------------------------------------------
(* The SignalWriter on its own *)

\* The payloads a signal file may hold.
SignalPayloads == {SignalPayload(r) : r \in AllRecords}

\* The contents of the signal file before the first write_best: no file, or
\* what an earlier run left.
InitialSignalFiles ==
    UNION {[1..n -> SignalPayloads] : n \in 0..MaxFileLines}

\* SignalWriter(filepath)
InitSignal ==
    /\ TrackerIdle
    /\ SatIdle
    /\ ReaderIdle
    /\ StoreIdle
    /\ SearchIdle
    /\ MainIdle
    /\ SignalIdle
    /\ ParseIdle
    /\ OrderIdle
    /\ ThreadsIdle
    /\ WatchIdle
    /\ running = FALSE
    /\ monPc = "idle"
    /\ pending = <<>>
    /\ signalFile \in InitialSignalFiles
    /\ signalled = FALSE
    /\ processedRecs = {}
    /\ freshRecs = {}
    /\ pendingAtSignal = <<>>

\* signal_writer.write_best(record)
Announce(record) ==
    /\ signalFile' = write_best(signalFile, record)
    /\ lastAnnounced' = Some(record)
    /\ announceParity' = ~announceParity
    /\ UNCHANGED <<running, monPc, pending, signalled, processedRecs,
                   freshRecs,
                   pendingAtSignal>>
    /\ UNCHANGED <<trackerVars, satVars, readerVars, storeVars, searchVars,
                   mainVars,
                   watchVars,
                   threadVars,
                   orderVars,
                   parseVars>>

NextSignal == \E record \in AllRecords : Announce(record)

SpecSignal == InitSignal /\ [][NextSignal]_vars

----------------------------------------------------------------------------
(* One record followed through the calls made on a ResultManager *)

\* ResultManager(max_seen_size), and the record followed
InitReobserve ==
    /\ seen = {}
    /\ best = EmptyDict
    /\ max_seen_size \in 0..MaxCap
    /\ self_threshold \in Thresholds
    /\ lastCall = NoCall
    /\ callParity = FALSE
    /\ maxAccepted = [k \in IoKeys |-> <<>>]
    /\ watched \in {Some(r) : r \in Records}
    /\ phase = "unseen"
    /\ SatIdle
    /\ MainIdle
    /\ SignalIdle
    /\ ParseIdle
    /\ OrderIdle
    /\ ThreadsIdle
    /\ ReaderIdle
    /\ StoreIdle
    /\ SearchIdle
    /\ MonitorIdle

\* add_record(record). The record followed is added when the call reports it
\* new, and reobserved when the call reports it new after update_best has
\* been run on it (processed, or rerun): its key was evicted in between.
ObserveAdd(record) ==
    /\ \E out \in add_record(seen, max_seen_size, record) :
         /\ seen' = out.seen
         /\ phase' = IF record = watched[1] /\ out.ret
                     THEN IF phase = "unseen" THEN "added"
                          ELSE IF phase \in {"processed", "rerun"}
                               THEN "reobserved"
                          ELSE phase
                     ELSE phase
    /\ UNCHANGED <<best, max_seen_size, self_threshold, lastCall, callParity,
                   maxAccepted, watched>>
    /\ UNCHANGED <<satVars, readerVars, storeVars, searchVars, monitorVars,
                   mainVars, signalVars,
                   threadVars,
                   orderVars,
                   parseVars>>

\* update_best(record, threshold), with the threshold of the run
ObserveUpdate(record) ==
    /\ best' = update_best(best, record, self_threshold).best
    /\ phase' = IF record = watched[1] /\ phase = "added" THEN "processed"
                ELSE IF record = watched[1] /\ phase = "reobserved"
                     THEN "rerun"
                ELSE phase
    /\ UNCHANGED <<seen, max_seen_size, self_threshold, lastCall, callParity,
                   maxAccepted, watched>>
    /\ UNCHANGED <<satVars, readerVars, storeVars, searchVars, monitorVars,
                   mainVars, signalVars,
                   threadVars,
                   orderVars,
                   parseVars>>

NextReobserve ==
    \/ \E record \in Records : ObserveAdd(record)
    \/ \E record \in Records : ObserveUpdate(record)

SpecReobserve == InitReobserve /\ [][NextReobserve]_vars

----------------------------------------------------------------------------
(* Threads and the threading.Lock of an object *)

Threads == 1..MaxThreads

\* An acquire that does not wait for the holder of the lock.
acquire_unlocked(holder) == TRUE

\* with self.lock: the lock can be taken when no thread holds it.
acquire(holder) == holder = 0

\* The threads that are in a call.
InCall == {t \in Threads : thrPc[t] # "idle"}

\* A thread calls a method: it waits for the lock.
ThreadCalls(t, op, record) ==
    /\ thrPc[t] = "idle"
    /\ thrPc' = [thrPc EXCEPT ![t] = "waiting"]
    /\ thrOp' = [thrOp EXCEPT ![t] = op]
    /\ thrArg' = [thrArg EXCEPT ![t] = Some(record)]
    /\ submitted' = IF op = "add_record" THEN submitted
                    ELSE submitted \cup {[op |-> op, record |-> record]}
    /\ UNCHANGED <<lockHolder, thrLocal>>

\* The thread enters the with block.
ThreadAcquires(t, next) ==
    /\ thrPc[t] = "waiting"
    /\ acquire(lockHolder)
    /\ lockHolder' = t
    /\ thrPc' = [thrPc EXCEPT ![t] = next]
    /\ UNCHANGED <<thrArg, thrOp, thrLocal, thrOverlap, submitted>>

\* The thread leaves the with block and its call returns.
ThreadReturns(t) ==
    /\ lockHolder' = IF lockHolder = t THEN 0 ELSE lockHolder
    /\ thrPc' = [thrPc EXCEPT ![t] = "idle"]
    /\ thrArg' = [thrArg EXCEPT ![t] = NoRecord]
    /\ thrOp' = [thrOp EXCEPT ![t] = "none"]
    /\ thrLocal' = [thrLocal EXCEPT ![t] = FALSE]
    /\ UNCHANGED submitted

\* The threads before their first call.
InitThreads ==
    /\ lockHolder = 0
    /\ thrPc = [t \in Threads |-> "idle"]
    /\ thrArg = [t \in Threads |-> NoRecord]
    /\ thrOp = [t \in Threads |-> "none"]
    /\ thrLocal = [t \in Threads |-> FALSE]
    /\ thrOverlap = [t \in Threads |-> {}]

----------------------------------------------------------------------------
(* One OutputWriter called by several threads *)

\* The maps an OutputWriter can hold: one record per io_key.
StoreMaps ==
    {d \in UNION {[1..n -> StoreRecords] : n \in 0..MaxFileLines} :
        \A i \in 1..Len(d), j \in 1..Len(d) : IoKey(d[i]) = IoKey(d[j]) => i = j}

\* OutputWriter(filepath) over no file or over a file an OutputWriter wrote
InitStoreThreads ==
    /\ TrackerIdle
    /\ SatIdle
    /\ ReaderIdle
    /\ SearchIdle
    /\ MonitorIdle
    /\ MainIdle
    /\ SignalIdle
    /\ ParseIdle
    /\ OrderIdle
    /\ WatchIdle
    /\ outFile \in {FileLines(d) : d \in StoreMaps}
    /\ tmpFile = <<>>
    /\ best_records = load_existing_bests(outFile, <<>>)
    /\ storePc = "idle"
    /\ prevFile = <<>>
    /\ fellBack = FALSE
    /\ lastPut = NoRecord
    /\ putParity = FALSE
    /\ InitThreads
    /\ submitted = {[op |-> "write_record", record |-> best_records[i]] :
                      i \in 1..Len(best_records)}

StoreThreadFrame ==
    /\ UNCHANGED <<storePc, prevFile, fellBack, lastPut, putParity>>
    /\ UNCHANGED <<trackerVars, satVars, readerVars, searchVars, monitorVars,
                   mainVars, signalVars, watchVars,
                   orderVars,
                   parseVars>>

\* writer.write_record(record) is called
PutCalled(t, record) ==
    /\ ThreadCalls(t, "write_record", record)
    /\ UNCHANGED thrOverlap
    /\ UNCHANGED <<outFile, tmpFile, best_records>>
    /\ StoreThreadFrame

\* write_record: with self.lock
PutAcquires(t) ==
    /\ ThreadAcquires(t, "check")
    /\ UNCHANGED <<outFile, tmpFile, best_records>>
    /\ StoreThreadFrame

\* write_record: the tests of io_key and of the concurrency
PutChecks(t) ==
    /\ thrPc[t] = "check"
    /\ thrLocal' = [thrLocal EXCEPT
                      ![t] = need_update(best_records, thrArg[t][1])]
    /\ thrPc' = [thrPc EXCEPT ![t] = IF thrLocal'[t] THEN "assign"
                                     ELSE "return"]
    /\ UNCHANGED <<lockHolder, thrArg, thrOp, thrOverlap, submitted>>
    /\ UNCHANGED <<outFile, tmpFile, best_records>>
    /\ StoreThreadFrame

\* write_record: self.best_records[io_key] = record
PutAssigns(t) ==
    /\ thrPc[t] = "assign"
    /\ best_records' = OrderedSet(best_records, thrArg[t][1])
    /\ thrPc' = [thrPc EXCEPT ![t] = "rewrite"]
    /\ UNCHANGED <<lockHolder, thrArg, thrOp, thrLocal, thrOverlap,
                   submitted>>
    /\ UNCHANGED <<outFile, tmpFile>>
    /\ StoreThreadFrame

\* _rewrite_file: the temporary file is written
PutWritesTemp(t) ==
    /\ thrPc[t] = "rewrite"
    /\ LET out == write_temp(outFile, FileLines(best_records))
       IN  /\ outFile' = out.outFile
           /\ tmpFile' = out.tmpFile
    /\ thrPc' = [thrPc EXCEPT ![t] = "replace"]
    /\ UNCHANGED <<lockHolder, thrArg, thrOp, thrLocal, thrOverlap,
                   submitted>>
    /\ UNCHANGED best_records
    /\ StoreThreadFrame

\* _rewrite_file: os.replace(temp_file, self.filepath); when the temporary
\* file is not there any more it raises and the file is overwritten directly
PutReplaces(t) ==
    /\ thrPc[t] = "replace"
    /\ IF tmpFile # <<>>
       THEN /\ outFile' = tmpFile[1]
            /\ tmpFile' = <<>>
       ELSE /\ outFile' = FileLines(best_records)
            /\ UNCHANGED tmpFile
    /\ thrPc' = [thrPc EXCEPT ![t] = "return"]
    /\ UNCHANGED <<lockHolder, thrArg, thrOp, thrLocal, thrOverlap,
                   submitted>>
    /\ UNCHANGED best_records
    /\ StoreThreadFrame

\* write_record returns
PutReturns(t) ==
    /\ thrPc[t] = "return"
    /\ ThreadReturns(t)
    /\ UNCHANGED thrOverlap
    /\ UNCHANGED <<outFile, tmpFile, best_records>>
    /\ StoreThreadFrame

NextStoreThreads ==
    \E t \in Threads :
        \/ \E record \in StoreRecords : PutCalled(t, record)
        \/ PutAcquires(t)
        \/ PutChecks(t)
        \/ PutAssigns(t)
        \/ PutWritesTemp(t)
        \/ PutReplaces(t)
        \/ PutReturns(t)

SpecStoreThreads == InitStoreThreads /\ [][NextStoreThreads]_vars

----------------------------------------------------------------------------
(* One ResultManager called by several threads *)

\* The records the threads submit: one scenario, within its ceiling or not.
ThreadRecords == {r \in Records : r.output_len = 128}

\* ResultManager(max_seen_size), and the threshold of the run
InitTrackerThreads ==
    /\ seen = {}
    /\ best = EmptyDict
    /\ max_seen_size \in 0..MaxCap
    /\ self_threshold = TtftThreshold
    /\ lastCall = NoCall
    /\ callParity = FALSE
    /\ maxAccepted = [k \in IoKeys |-> <<>>]
    /\ SatIdle
    /\ ReaderIdle
    /\ StoreIdle
    /\ SearchIdle
    /\ MonitorIdle
    /\ MainIdle
    /\ SignalIdle
    /\ ParseIdle
    /\ OrderIdle
    /\ WatchIdle
    /\ InitThreads
    /\ submitted = {}

TrackerThreadFrame ==
    /\ UNCHANGED <<max_seen_size, self_threshold, lastCall, callParity,
                   maxAccepted>>
    /\ UNCHANGED <<satVars, readerVars, storeVars, searchVars, monitorVars,
                   mainVars, signalVars, watchVars,
                   orderVars,
                   parseVars>>

\* add_record(record) or update_best(record, threshold) is called
TrackerCalled(t, op, record) ==
    /\ ThreadCalls(t, op, record)
    /\ thrOverlap' = [thrOverlap EXCEPT ![t] = {}]
    /\ UNCHANGED <<seen, best>>
    /\ TrackerThreadFrame

\* with self.lock
TrackerAcquires(t) ==
    /\ ThreadAcquires(t, thrOp[t])
    /\ UNCHANGED <<seen, best>>
    /\ TrackerThreadFrame

\* add_record: if key in self.seen
AddTests(t) ==
    /\ thrPc[t] = "add_record"
    /\ thrLocal' = [thrLocal EXCEPT ![t] = DedupKey(thrArg[t][1]) \notin seen]
    /\ thrPc' = [thrPc EXCEPT ![t] = IF thrLocal'[t] THEN "add" ELSE "return"]
    /\ UNCHANGED <<lockHolder, thrArg, thrOp, thrOverlap, submitted>>
    /\ UNCHANGED <<seen, best>>
    /\ TrackerThreadFrame

\* add_record: self.seen.add(key) and self._cleanup_seen()
AddAdds(t) ==
    /\ thrPc[t] = "add"
    /\ seen' \in cleanup_seen(seen \cup {DedupKey(thrArg[t][1])}, max_seen_size)
    /\ thrPc' = [thrPc EXCEPT ![t] = "return"]
    /\ UNCHANGED <<lockHolder, thrArg, thrOp, thrLocal, thrOverlap, submitted>>
    /\ UNCHANGED best
    /\ TrackerThreadFrame

\* update_best: satisfy(record, threshold), old_best and the comparison
UpdateReads(t) ==
    /\ thrPc[t] = "update_best"
    /\ thrLocal' = [thrLocal EXCEPT
                      ![t] = update_best(best, thrArg[t][1],
                                         self_threshold).updated]
    /\ thrPc' = [thrPc EXCEPT ![t] = IF thrLocal'[t] THEN "assign"
                                     ELSE "return"]
    /\ UNCHANGED <<lockHolder, thrArg, thrOp, thrOverlap, submitted>>
    /\ UNCHANGED <<seen, best>>
    /\ TrackerThreadFrame

\* update_best: self.best[io_key] = record
UpdateAssigns(t) ==
    /\ thrPc[t] = "assign"
    /\ best' = DictSet(best, IoKey(thrArg[t][1]), thrArg[t][1])
    /\ thrPc' = [thrPc EXCEPT ![t] = "return"]
    /\ UNCHANGED <<lockHolder, thrArg, thrOp, thrLocal, thrOverlap, submitted>>
    /\ UNCHANGED seen
    /\ TrackerThreadFrame

\* The call returns thrLocal[t]. An add_record that returns True is noted by
\* the add_record calls of the same key that are in progress.
TrackerReturns(t) ==
    /\ thrPc[t] = "return"
    /\ ThreadReturns(t)
    /\ thrOverlap' =
         [u \in Threads |->
            IF u = t THEN {}
            ELSE IF /\ thrOp[t] = "add_record"
                    /\ thrLocal[t]
                    /\ thrPc[u] # "idle"
                    /\ thrOp[u] = "add_record"
                    /\ DedupKey(thrArg[u][1]) = DedupKey(thrArg[t][1])
                 THEN thrOverlap[u] \cup {t}
                 ELSE thrOverlap[u]]
    /\ UNCHANGED <<seen, best>>
    /\ TrackerThreadFrame

NextTrackerThreads ==
    \E t \in Threads :
        \/ \E record \in ThreadRecords : TrackerCalled(t, "add_record", record)
        \/ \E record \in ThreadRecords : TrackerCalled(t, "update_best", record)
        \/ TrackerAcquires(t)
        \/ AddTests(t)
        \/ AddAdds(t)
        \/ UpdateReads(t)
        \/ UpdateAssigns(t)
        \/ TrackerReturns(t)

SpecTrackerThreads == InitTrackerThreads /\ [][NextTrackerThreads]_vars

----------------------------------------------------------------------------
(* _process_record given records one after the other *)

\* The records given to _process_record: one scenario, a ttft under or over
\* the ceiling, and one concurrency more than the logs of the monitor hold, so
\* that a record can fall between a best and the record that confirmed it.
ProcessRecords ==
    {TestRecord(128, 128, c, t, None, None) :
        c \in 1..(MaxConc + 1), t \in {LowMs, HighMs}}

\* MonitorMode(args, threshold), with no best-records file yet
InitProcess ==
    /\ SatIdle
    /\ ThreadsIdle
    /\ WatchIdle
    /\ OrderIdle
    /\ ParseIdle
    /\ MainIdle
    /\ SearchIdle
    /\ ReaderIdle
    /\ StoreIdle
    /\ self_threshold \in Thresholds
    /\ seen = {}
    /\ best = EmptyDict
    /\ max_seen_size = DefaultMaxSeenSize
    /\ lastCall = NoCall
    /\ callParity = FALSE
    /\ maxAccepted = [k \in IoKeys |-> <<>>]
    /\ running = TRUE
    /\ monPc = "process"
    /\ pending = <<>>
    /\ signalFile = NoRecord
    /\ signalled = FALSE
    /\ processedRecs = {}
    /\ freshRecs = {}
    /\ pendingAtSignal = <<>>
    /\ lastAnnounced = NoRecord
    /\ announceParity = FALSE

\* self._process_record(record_data), record_data the dict of record. What
\* it gives to write_best is noted.
Process(record) ==
    /\ \E is_new \in BOOLEAN,
          announced \in {NoRecord} \cup {Some(r) : r \in ProcessRecords} :
          /\ process_record(record, is_new, announced)
          /\ lastAnnounced' = IF announced = NoRecord THEN lastAnnounced
                              ELSE announced
          /\ announceParity' = IF announced = NoRecord THEN announceParity
                               ELSE ~announceParity
    /\ UNCHANGED <<running, monPc, pending, signalled, processedRecs,
                   freshRecs,
                   pendingAtSignal>>
    /\ UNCHANGED <<max_seen_size, self_threshold, lastCall, callParity,
                   maxAccepted>>
    /\ UNCHANGED <<tmpFile, storePc, fellBack>>
    /\ UNCHANGED <<satVars, readerVars, searchVars, mainVars, watchVars,
                   threadVars,
                   orderVars,
                   parseVars>>

NextProcess == \E record \in ProcessRecords : Process(record)

SpecProcess == InitProcess /\ [][NextProcess]_vars

----------------------------------------------------------------------------
(* The monitor over a log written a part of a line at a time *)

\* _process_record on the next value yielded by read_new_lines, the record
\* given to add_record being noted.
ProcessRecordInOrder ==
    /\ monPc = "process"
    /\ pending # <<>>
    /\ Head(pending).k = "dict"
    /\ pending' = Tail(pending)
    /\ \E record \in {from_dict(Head(pending).r[1])} :
       \E is_new \in BOOLEAN :
       \E announced \in {NoRecord, DictGet(best, IoKey(record))} :
          /\ process_record(record, is_new, announced)
          /\ processedRecs' = processedRecs \cup {record}
          /\ freshRecs' = IF is_new THEN freshRecs \cup {record}
                          ELSE freshRecs
          /\ handed' = Append(handed, record)
    /\ UNCHANGED <<running, monPc, signalled, pendingAtSignal>>
    /\ UNCHANGED <<max_seen_size, self_threshold, lastCall, callParity,
                   maxAccepted>>
    /\ UNCHANGED <<tmpFile, storePc, fellBack>>
    /\ UNCHANGED <<satVars, readerVars, searchVars,
                   mainVars, signalVars,
                   watchVars,
                   threadVars,
                   parseVars>>

\* The harness writes whole lines, or a line in two writes; run polls
\* between any two of them.
NextMonitorInOrder ==
    \/ \E r \in LogRecords : AppendRecord(r)
    \/ \E r \in LogRecords : AppendPartial(r)
    \/ CompletePartial
    \/ MonitorRun
    \/ SignalHandler
    \/ MonitorPoll
    \/ ProcessRecordInOrder
    \/ MonitorSleep
    \/ MonitorStop

SpecMonitorInOrder == InitMonitorTtft /\ [][NextMonitorInOrder]_vars

----------------------------------------------------------------------------
(* parse_threshold *)

\* What the string given to --threshold is made of: runs of whitespace and
\* words. A word has a colon followed by a number ("ttft:100"), a colon
\* followed by something float() rejects ("ttft:abc"), or no colon
\* ("ttft100").
Blank == [kind |-> "blank", k |-> "", v |-> 0]
PairWord(k, v) == [kind |-> "pair", k |-> k, v |-> v]
BadNumberWord(k) == [kind |-> "badnumber", k |-> k, v |-> 0]
NoColonWord == [kind |-> "nocolon", k |-> "", v |-> 0]

ThresholdWords ==
    {PairWord(k, v) : k \in {"ttft", "tpot"}, v \in {Ceiling, HighMs}}
        \cup {BadNumberWord(k) : k \in {"ttft", "tpot"}}
        \cup {NoColonWord}

\* The strings: words separated by whitespace.
ThresholdStrings ==
    {s \in UNION {[1..n -> ThresholdWords \cup {Blank}] :
                    n \in 0..MaxThresholdChunks} :
        \A i \in 1..(Len(s) - 1) : s[i] = Blank \/ s[i + 1] = Blank}

\* s.split(): the words of s.
split(s) == SelectSeq(s, LAMBDA c : c # Blank)

\* The loop of parse_threshold over the items left, res and the items
\* printed so far: an item without a colon is passed over, float() of what
\* follows the colon is stored under what precedes it, and the item is
\* printed when float() raises ValueError.
RECURSIVE parse_items(_, _, _)
parse_items(items, res, warned) ==
    IF items = <<>> THEN [res |-> res, warned |-> warned]
    ELSE IF Head(items).kind = "nocolon"
    THEN parse_items(Tail(items), res, warned)
    ELSE IF Head(items).kind = "pair"
    THEN parse_items(Tail(items),
                     DictSet(res, Head(items).k, Head(items).v), warned)
    ELSE parse_items(Tail(items), res, Append(warned, Head(items)))

\* parse_threshold(s)
parse_threshold(s) ==
    IF split(s) = <<>> THEN [res |-> EmptyDict, warned |-> <<>>]
    ELSE parse_items(split(s), EmptyDict, <<>>)

InitParse ==
    /\ TrackerIdle
    /\ SatIdle
    /\ ReaderIdle
    /\ StoreIdle
    /\ SearchIdle
    /\ MonitorIdle
    /\ MainIdle
    /\ SignalIdle
    /\ OrderIdle
    /\ ThreadsIdle
    /\ WatchIdle
    /\ parseInput \in ThresholdStrings
    /\ parseRes = NoRecord
    /\ parseWarned = <<>>
    /\ parsePc = "called"

\* parse_threshold(args.threshold) returns.
ParseThreshold ==
    /\ parsePc = "called"
    /\ \E out \in {parse_threshold(parseInput)} :
         /\ parseRes' = Some(out.res)
         /\ parseWarned' = out.warned
    /\ parsePc' = "returned"
    /\ UNCHANGED parseInput
    /\ UNCHANGED <<trackerVars, satVars, readerVars, storeVars, searchVars,
                   monitorVars, mainVars, signalVars,
                   watchVars,
                   threadVars,
                   orderVars>>

SpecParse == InitParse /\ [][ParseThreshold]_vars

----------------------------------------------------------------------------
(* Properties of the ResultManager and of satisfy *)

\* The value of a metric in a record, by the metric's name in a threshold.
MetricOf(record, metric) ==
    CASE metric = "ttft" -> record.mean_ttft_ms
      [] metric = "tpot" -> record.mean_tpot_ms
      [] metric = "e2el" -> record.mean_e2el_ms

\* Every metric that has a ceiling in the threshold and a value in the record
\* is at or below its ceiling.
WithinCeilings(record, thr) ==
    \A metric \in {"ttft", "tpot", "e2el"} :
        (metric \in DOMAIN thr /\ MetricOf(record, metric) # None)
            => MetricOf(record, metric) <= thr[metric]

\* C1. Monotonic best: every record update_best accepts has a concurrency
\* greater than every concurrency accepted before for its scenario, in any
\* arrival order, and the best concurrency of a scenario never decreases.
C1_MonotonicBest ==
    [][ /\ (callParity' # callParity /\ lastCall'.op = "update_best"
               /\ lastCall'.ret)
           => LET record == lastCall'.record[1]
                  before == maxAccepted[IoKey(record)]
              IN  before = <<>> \/ record.concurrency > before[1]
        /\ \A k \in DOMAIN best :
             k \in DOMAIN best'
             /\ best'[k].concurrency >= best[k].concurrency ]_vars

\* A satisfying record arrived after a greater concurrency of its scenario
\* had been accepted, and was not accepted.
C1_Witness ==
    /\ lastCall.op = "update_best"
    /\ ~lastCall.ret
    /\ LET record == lastCall.record[1]
       IN  /\ satisfy(record, self_threshold)
           /\ maxAccepted[IoKey(record)] # <<>>
           /\ record.concurrency < maxAccepted[IoKey(record)][1]

\* C3. satisfy(record, threshold) is true exactly when every metric with a
\* ceiling in the threshold and a value in the record is at or below the
\* ceiling; an empty threshold accepts every record.
C3_SatisfyIffWithinCeilings ==
    satResult # "idle" =>
        /\ (satResult = "true") <=> WithinCeilings(satRecord[1], satThreshold)
        /\ (satThreshold = EmptyThreshold => satResult = "true")

\* satisfy has accepted a record that lacks a constrained metric and has
\* another one exactly at its ceiling.
C3_Witness ==
    /\ satResult = "true"
    /\ DOMAIN satThreshold = {"ttft", "tpot"}
    /\ satRecord[1].mean_ttft_ms = None
    /\ satRecord[1].mean_tpot_ms = Ceiling
    /\ satRecord[1].mean_e2el_ms = HighMs

\* C4. Threshold gating: every record of the best map is within the ceilings
\* of the threshold it was submitted with.
C4_ThresholdGating ==
    \A k \in DOMAIN best : WithinCeilings(best[k], self_threshold)

\* Under ttft:100 a record above the ceiling was refused although its
\* concurrency exceeds that of the best, a record under the ceiling.
C4_Witness ==
    /\ self_threshold = TtftThreshold
    /\ lastCall.op = "update_best"
    /\ ~lastCall.ret
    /\ LET record == lastCall.record[1]
       IN  /\ record.mean_ttft_ms = HighMs
           /\ IoKey(record) \in DOMAIN best
           /\ best[IoKey(record)].mean_ttft_ms = LowMs
           /\ record.concurrency > best[IoKey(record)].concurrency

\* C5. Dedup idempotence: add_record returns true iff the key was not in the
\* set before the call, leaves the key in the set and the best map as it
\* was, so that the same record submitted twice in a row is new once only.
C5_DedupIdempotence ==
    [][ (callParity' # callParity /\ lastCall'.op = "add_record")
        => LET record == lastCall'.record[1]
           IN  /\ lastCall'.ret = (DedupKey(record) \notin seen)
               /\ DedupKey(record) \in seen'
               /\ best' = best
               /\ (lastCall.op = "add_record" /\ lastCall.record = lastCall'.record
                     /\ lastCall.ret) => ~lastCall'.ret ]_vars

----------------------------------------------------------------------------
(* Properties of the JsonTailReader *)

\* The decoded values of the records recs[from + 1], ..., in order.
DictsFrom(recs, from) ==
    [i \in 1..(Len(recs) - from) |-> DictOf(recs[from + i])]

\* The previous read_new_lines ended at the end of a line, and the log has
\* only been appended to since.
LinesAppendedSinceRead ==
    /\ appendedOnly
    /\ position <= Len(logFile)
    /\ IF position = 0 THEN TRUE ELSE logFile[position] = Nl

\* C6. Tail resumption: when a read has consumed the log and lines are then
\* appended, the next read_new_lines yields exactly the records of the
\* appended lines, in order, none of them returned by an earlier read, and
\* leaves the position at the end of the log.
C6_TailResumption ==
    [][ (readParity' # readParity /\ LinesAppendedSinceRead)
        => /\ yielded' = DictsFrom(fileRecs, recsAtRead)
           /\ ~readReset'
           /\ position' = Len(logFile) ]_vars

\* A log of three record lines, of which a read consumed the first and the
\* next read yielded exactly the two appended since, in order.
C6_Witness ==
    /\ Len(fileRecs) = 3
    /\ logFile = FileOf(fileRecs)
    /\ fileRecs[2] # fileRecs[3]
    /\ yielded = <<DictOf(fileRecs[2]), DictOf(fileRecs[3])>>
    /\ ~readReset
    /\ position = Len(logFile)

\* C7. Truncation handling: when the log is shorter than the tracked
\* position, read_new_lines resets the position to 0, yields the full
\* contents of the file and leaves the position at its end.
C7_TruncationHandling ==
    [][ (readParity' # readParity /\ Len(logFile) < position)
        => /\ readReset'
           /\ yielded' = DictsFrom(fileRecs, 0)
           /\ position' = Len(logFile) ]_vars

\* A read that reset the position and yielded the whole of a log of one line,
\* shorter than the two lines read before.
C7_Witness ==
    /\ readReset
    /\ Len(fileRecs) = 1
    /\ logFile = FileOf(fileRecs)
    /\ yielded = <<DictOf(fileRecs[1])>>
    /\ position = Len(logFile)

----------------------------------------------------------------------------
(* Properties of the OutputWriter *)

\* The file holds a line for the io_key of the record, of a concurrency at
\* least the record's.
FileHoldsAtLeast(file, record) ==
    \E i \in 1..Len(file) :
        /\ file[i].k = "json"
        /\ IoKey(file[i].r[1]) = IoKey(record)
        /\ record.concurrency <= file[i].r[1].concurrency

\* C8. No downgrade: write_record of a record whose io_key the file already
\* holds with a concurrency greater than or equal to the record's leaves
\* self.best_records and the file as they were.
C8_NoDowngrade ==
    [][ (putParity' # putParity /\ FileHoldsAtLeast(outFile, lastPut'[1]))
        => /\ best_records' = best_records
           /\ outFile' = outFile
           /\ storePc' = "idle" ]_vars

\* C9 as stated. Write atomicity: at every moment the file holds the whole of
\* what it held when the last write_record began, or the whole of the lines
\* of the records of self.best_records.
C9_AlwaysWholeFile ==
    outFile \in {prevFile, FileLines(best_records)}

\* C9, amended. As long as write_record has not gone to the direct overwrite
\* (the temporary file was written and renamed without error), the file holds
\* the whole of what it held when the write_record began, or the whole of the
\* new lines.
C9_WholeFileUnlessFallback ==
    ~fellBack => outFile \in {prevFile, FileLines(best_records)}

\* The temporary file holds the new lines of two records and the file still
\* holds the one line it held before, of another content.
C9_Witness ==
    /\ storePc = "replace"
    /\ ~fellBack
    /\ Len(tmpFile[1]) = 2
    /\ Len(prevFile) = 1
    /\ prevFile[1].k = "json"
    /\ outFile = prevFile
    /\ outFile # FileLines(best_records)

----------------------------------------------------------------------------
(* Properties of the binary search *)

\* The record of a probe of batch c is within the ceilings of the threshold.
ProbeSatisfies(c) ==
    WithinCeilings(HarnessRecord(profile, c), self_threshold)

\* Satisfaction does not increase with the batch over the bounds of the search.
MonotoneHarness ==
    \A c \in min_batch..max_batch, e \in min_batch..max_batch :
        (c < e /\ ProbeSatisfies(e)) => ProbeSatisfies(c)

SatisfyingBatches == {c \in min_batch..max_batch : ProbeSatisfies(c)}

GreatestSatisfying ==
    CHOOSE c \in SatisfyingBatches : \A e \in SatisfyingBatches : e <= c

\* When the search is over, every probe having appended its record and the
\* harness being monotone, the running best is the record of the greatest
\* satisfying batch of the bounds, and None when there is none.
SearchResultCorrect ==
    (searchPc = "done" /\ allEmitted /\ MonotoneHarness)
        => IF SatisfyingBatches = {} THEN best_record = NoRecord
           ELSE best_record = Some(HarnessRecord(profile, GreatestSatisfying))

\* C10. Binary-search correctness: with a harness that appends one record per
\* probe and whose satisfaction is monotonically non-increasing in the
\* batch, the search terminates, with the record of the greatest satisfying
\* batch of [min_batch, max_batch] as its best, or no best when there is none.
C10_BinarySearchCorrect ==
    []SearchResultCorrect /\ <>(searchPc = "done")

\* A search over several batches ended after more than one probe with a best
\* strictly inside its bounds.
C10_Witness ==
    /\ searchPc = "done"
    /\ allEmitted
    /\ MonotoneHarness
    /\ iteration >= 2
    /\ best_record # NoRecord
    /\ best_record[1].concurrency > min_batch
    /\ best_record[1].concurrency < max_batch
    /\ best_record[1].concurrency = GreatestSatisfying

----------------------------------------------------------------------------
(* Properties of the monitor *)

\* The records of recs of the scenario io_key that are within the ceilings.
SatisfyingOf(recs, io_key) ==
    {r \in recs : IoKey(r) = io_key /\ WithinCeilings(r, self_threshold)}

\* The tracked best of every scenario is a record of greatest concurrency
\* among the satisfying ones of recs, and there is none iff recs has none.
BestIsGreatestOf(recs) ==
    \A io_key \in IoKeys :
        IF SatisfyingOf(recs, io_key) = {}
        THEN io_key \notin DOMAIN best
        ELSE /\ io_key \in DOMAIN best
             /\ best[io_key] \in SatisfyingOf(recs, io_key)
             /\ \A r \in SatisfyingOf(recs, io_key) :
                    r.concurrency <= best[io_key].concurrency

\* C2 as stated. Once the loop has processed the records it has read, the
\* tracked best of each scenario is the satisfying record of greatest
\* concurrency among all the records read from the log, and there is no
\* best iff none satisfies.
C2_BestAmongAllRead ==
    (monPc \in {"poll", "process", "stopped"} /\ pending = <<>>)
        => BestIsGreatestOf(processedRecs)

\* C2, amended. In monitor mode the tracked best of each scenario is the
\* satisfying record of greatest concurrency among the records read from
\* the log that add_record reported new, and there is no best iff none of
\* them satisfies; a record whose (input_len, output_len, concurrency) was
\* already seen is dropped whatever its latencies.
C2_BestAmongNewRecords ==
    monPc \in {"constructed", "poll", "process", "stopped"}
        => BestIsGreatestOf(freshRecs)

\* The loop dropped a satisfying record as a duplicate of a record that
\* failed, and went on to track a best among the records that were new.
C2_Witness ==
    /\ monPc = "process"
    /\ pending = <<>>
    /\ \E r \in processedRecs \ freshRecs :
          /\ WithinCeilings(r, self_threshold)
          /\ \E q \in freshRecs :
                DedupKey(q) = DedupKey(r) /\ ~WithinCeilings(q, self_threshold)
    /\ IoKey(StaleRecord) \in DOMAIN best
    /\ Cardinality(freshRecs) >= 2

----------------------------------------------------------------------------
(* Properties of the binary search over the default bounds *)

\* The least k with 2^k >= n.
RECURSIVE CeilLog2(_)
CeilLog2(n) == IF n <= 1 THEN 0 ELSE 1 + CeilLog2((n + 1) \div 2)

\* While every probe has appended its record the search has run at most
\* ceil(log2(max_batch)) probes, and when it is over its best is the record
\* of half the default maximum.
DefaultSearchConverges ==
    allEmitted =>
        /\ iteration <= CeilLog2(DefaultMaxBatch)
        /\ searchPc = "done" =>
              best_record =
                 Some(HarnessRecord(profile, DefaultMaxBatch \div 2))

\* C11. Binary-search convergence bound: over the bounds [1, 128], with a
\* harness that satisfies the threshold iff concurrency <= 64, the search
\* ends with best = 64 after at most ceil(log2(128)) = 7 probes.
C11_ConvergenceBound ==
    []DefaultSearchConverges /\ <>(searchPc = "done")

\* The search over the default bounds is over, every probe having appended
\* its record, after exactly ceil(log2(128)) probes, with 64 as its best.
C11_Witness ==
    /\ searchPc = "done"
    /\ allEmitted
    /\ min_batch = DefaultMinBatch
    /\ max_batch = DefaultMaxBatch
    /\ iteration = CeilLog2(DefaultMaxBatch)
    /\ best_record # NoRecord
    /\ best_record[1].concurrency = DefaultMaxBatch \div 2

----------------------------------------------------------------------------
(* Properties of an iteration of the search *)

\* An iteration during which nothing was appended to the log.
FailedProbeStep ==
    /\ iteration' = iteration + 1
    /\ logFile' = logFile

\* C12. Search failure handling: an iteration whose command appends no
\* record is treated as "no result", whatever earlier probes left in the
\* log: hi becomes mid - 1, lo does not advance, the running best is
\* unchanged, nothing is written to the best-records file and the loop
\* goes on.
C12_FailedProbeIsNoResult ==
    [][FailedProbeStep =>
          /\ hi' = midpoint(lo, hi) - 1
          /\ lo' = lo
          /\ best_record' = best_record
          /\ best_records' = best_records
          /\ outFile' = outFile
          /\ searchPc' = "loop"]_vars

----------------------------------------------------------------------------
(* Properties of the stop of the monitor *)

\* C13. An interrupt or termination request delivered at any point of a run
\* always leads to a graceful stop: the monitor loop eventually leaves its
\* loop, prints its final summary and returns (exit code 0).
C13_InterruptLeadsToStop ==
    signalled ~> (monPc = "stopped")

----------------------------------------------------------------------------
(* Properties of main in binary mode *)

\* C14. Binary mode invoked without a command template is a fatal setup
\* error: the process always terminates with exit code 1 without running
\* any probe, whatever the state of the log and output paths, a log that
\* does not exist yet included.
C14_MissingTemplateExits ==
    /\ [](~has_template => (iteration = 0 /\ searchPc = "idle"))
    /\ (~has_template) ~> (exitCode = 1)

----------------------------------------------------------------------------
(* Properties of the content of the best-records file *)

\* The records of the record lines of a file, in order.
RecordLines(file) ==
    LET lines == SelectSeq(file, LAMBDA l : l.k = "json")
    IN  [i \in 1..Len(lines) |-> lines[i].r[1]]

\* No two records of d are of the same scenario.
OnePerScenario(d) ==
    \A i \in 1..Len(d), j \in 1..Len(d) : IoKey(d[i]) = IoKey(d[j]) => i = j

\* The file is made of one record line per record of the map, and nothing
\* else.
FileIsTheMap ==
    /\ Len(outFile) = Len(best_records)
    /\ RecordLines(outFile) = best_records
    /\ OnePerScenario(best_records)

RewriteCompletes ==
    /\ storePc' = "idle"
    /\ \/ storePc = "replace"
       \/ storePc = "fallback_write" /\ Len(outFile) = Len(best_records)

----------------------------------------------------------------------------
(* Properties of the signal file *)

\* C16. After any sequence of write_best calls the signal file holds exactly
\* one object, the payload of the most recent call, and its best_batch is the
\* concurrency of that call's record.
C16_LastAnnouncedOnly ==
    lastAnnounced # NoRecord =>
        /\ Len(signalFile) = 1
        /\ signalFile[1] = SignalPayload(lastAnnounced[1])
        /\ signalFile[1].best_batch = lastAnnounced[1].concurrency

\* A second write_best, of another scenario at another concurrency, over a
\* file that held an object already.
C16_Witness ==
    /\ lastAnnounced # NoRecord
    /\ announceParity = FALSE
    /\ Len(signalFile) = 1
    /\ signalFile[1].best_batch = MaxConc
    /\ signalFile[1] = SignalPayload(lastAnnounced[1])

----------------------------------------------------------------------------
(* Properties of the monitor's dedup set *)

\* C17. In monitor mode the dedup set never holds more keys than the
\* --max-seen-size given on the command line, however many records were
\* processed.
C17_SeenWithinConfiguredCap ==
    monPc # "idle" => Cardinality(seen) <= args_max_seen_size

----------------------------------------------------------------------------
(* Properties of update_best: what it returns and what it leaves alone *)

\* The record satisfies the threshold and its scenario has no best, or a best
\* of a strictly smaller concurrency.
Accepted(bestMap, record, threshold) ==
    /\ satisfy(record, threshold)
    /\ \/ IoKey(record) \notin DOMAIN bestMap
       \/ record.concurrency > bestMap[IoKey(record)].concurrency

\* after is before with the best of the record's scenario set to the record.
OnlyScenarioReplaced(before, after, record) ==
    /\ DOMAIN after = DOMAIN before \cup {IoKey(record)}
    /\ after[IoKey(record)] = record
    /\ \A k \in DOMAIN before \ {IoKey(record)} : after[k] = before[k]

\* What update_best returns and makes of the best map, for every record in
\* the state the tracker is in.
UpdateBestReturns ==
    \A record \in Records :
        LET out == update_best(best, record, self_threshold)
            io_key == IoKey(record)
        IN  IF Accepted(best, record, self_threshold)
            THEN /\ out.updated
                 /\ out.old_best = IF io_key \in DOMAIN best
                                   THEN <<best[io_key]>> ELSE <<>>
                 /\ OnlyScenarioReplaced(best, out.best, record)
            ELSE /\ ~out.updated
                 /\ out.old_best = <<>>
                 /\ out.best = best

\* A step that is a call of update_best.
UpdateBestStep ==
    /\ callParity' # callParity
    /\ lastCall'.op = "update_best"

\* C18. update_best returns (True, the displaced best or None) and replaces
\* the scenario's best exactly when the record satisfies the threshold and the
\* scenario has no best or one of a strictly smaller concurrency; otherwise
\* it returns (False, None) and leaves the best map unchanged. It never
\* changes the dedup set or the best of another scenario.
C18_UpdateBestContract ==
    /\ []UpdateBestReturns
    /\ [][UpdateBestStep =>
            /\ seen' = seen
            /\ IF Accepted(best, lastCall'.record[1], self_threshold)
               THEN /\ lastCall'.ret
                    /\ OnlyScenarioReplaced(best, best', lastCall'.record[1])
               ELSE /\ ~lastCall'.ret
                    /\ best' = best]_vars

\* update_best has just replaced the best of one scenario while another
\* scenario has a best and the dedup set is not empty.
C18_Witness ==
    /\ lastCall.op = "update_best"
    /\ lastCall.ret
    /\ lastCall.record[1].concurrency = MaxConc
    /\ Cardinality(DOMAIN best) >= 2
    /\ best[IoKey(lastCall.record[1])] = lastCall.record[1]
    /\ seen # {}

----------------------------------------------------------------------------
(* Properties of the size of the dedup set *)

\* C19. A ResultManager built with max_seen_size N, for any N >= 0, holds at
\* most N keys in its dedup set after every add_record.
C19_SeenWithinCap ==
    Cardinality(seen) <= max_seen_size

----------------------------------------------------------------------------
(* Properties of the eviction from the dedup set *)

\* A step that is an add_record of a new key which takes the set over its
\* cap.
OverflowingAdd ==
    /\ callParity' # callParity
    /\ lastCall'.op = "add_record"
    /\ DedupKey(lastCall'.record[1]) \notin seen
    /\ Cardinality(seen) + 1 > max_seen_size

\* C20. When an add_record overflows the dedup set the eviction drops the
\* oldest keys in insertion order: the key just inserted survives, and with
\* it the key inserted by the call before when two keys or more survive.
C20_EvictionKeepsNewest ==
    [][OverflowingAdd =>
        /\ DedupKey(lastCall'.record[1]) \in seen'
        /\ (/\ lastCall.op = "add_record"
            /\ lastCall.ret
            /\ Cardinality(seen') >= 2)
           => DedupKey(lastCall.record[1]) \in seen']_vars

----------------------------------------------------------------------------
(* Properties of a record seen again after the eviction of its key *)

\* The key of the record followed is not in the dedup set although
\* add_record and update_best have been run on the record.
WatchedEvicted ==
    /\ phase \in {"processed", "rerun"}
    /\ DedupKey(watched[1]) \notin seen

\* C21. A record whose key was evicted from the dedup set passes add_record
\* again when it is observed again, and running update_best on it again
\* leaves the best map as it is, whatever calls were made in between.
C21_ReobservedLeavesBest ==
    /\ [](WatchedEvicted =>
            \A out \in add_record(seen, max_seen_size, watched[1]) : out.ret)
    /\ [][(phase = "reobserved" /\ phase' = "rerun") => best' = best]_vars

\* update_best has been run again on the record followed, which is the best
\* of its scenario, after its key was evicted and it passed add_record again.
C21_Witness ==
    /\ phase = "rerun"
    /\ IoKey(watched[1]) \in DOMAIN best
    /\ best[IoKey(watched[1])] = watched[1]
    /\ Cardinality(DOMAIN best) >= 2
    /\ DedupKey(watched[1]) \in seen
    /\ max_seen_size >= 1

----------------------------------------------------------------------------
(* Properties of a line read while it was being written *)

\* A read consumed the first part of the line of r as the last line of the
\* log, and the producer has completed the line since.
PartialReadCompleted(r) ==
    /\ position \in 1..(Len(logFile) - 1)
    /\ logFile[position] = LineHead(r)
    /\ logFile[position + 1] = LineTail(r)

\* The last read yielded r.
Delivered(r) ==
    \E i \in 1..Len(yielded) : yielded[i] = DictOf(r)

\* C22. A trailing line that failed to decode because it was partially
\* written when read is retried: once the producer has completed it, a later
\* read_new_lines yields its record.
C22_PartialLineRetried ==
    \A r \in LogRecords : PartialReadCompleted(r) ~> Delivered(r)

----------------------------------------------------------------------------
(* Properties of the map an OutputWriter loads at construction *)

\* The first of the records recs of the scenario k that no other record of
\* the scenario exceeds in concurrency.
FirstGreatest(recs, k) ==
    LET of_k == {i \in 1..Len(recs) : IoKey(recs[i]) = k}
        top == {i \in of_k :
                  \A j \in of_k : recs[j].concurrency <= recs[i].concurrency}
    IN  recs[CHOOSE i \in top : \A j \in top : i <= j]

\* d holds, for each scenario of the record lines of file, the first record
\* of greatest concurrency among them, and nothing else.
SeededFrom(d, file) ==
    LET recs == RecordLines(file)
        keys == {IoKey(recs[i]) : i \in 1..Len(recs)}
    IN  /\ {IoKey(d[i]) : i \in 1..Len(d)} = keys
        /\ OnePerScenario(d)
        /\ \A i \in 1..Len(d) : d[i] = FirstGreatest(recs, IoKey(d[i]))

\* C23. An OutputWriter constructed over an existing file holds, for each
\* scenario that appears in the file, the record of greatest concurrency
\* among the lines of that scenario, the lines that are blank or do not
\* decode being skipped.
C23_SeededWithGreatest ==
    (lastPut = NoRecord /\ storePc = "idle") => SeededFrom(best_records, outFile)

----------------------------------------------------------------------------
(* Properties of the direct overwrite _rewrite_file falls back to *)

\* The map holds the record of the last write_record.
KeepsTheUpdate ==
    /\ lastPut # NoRecord
    /\ \E i \in 1..Len(best_records) : best_records[i] = lastPut[1]

\* The last write_record went to the direct overwrite and has returned.
FellBackAndReturned ==
    /\ fellBack
    /\ storePc = "idle"

\* C24 as stated. When the write of the temporary file or the rename fails,
\* write_record falls back to a direct overwrite after which the file holds
\* every current best record, and the map keeps the update.
C24_FallbackLeavesEveryBest ==
    FellBackAndReturned => (KeepsTheUpdate /\ outFile = FileLines(best_records))

\* The first n lines of lines, for every n.
Prefixes(lines) == {SubSeq(lines, 1, n) : n \in 0..Len(lines)}

\* C24, amended. When the write of the temporary file or the rename fails,
\* write_record returns with the update kept in the map, and the file holds
\* every current best record when the direct overwrite ran to its end; when
\* the direct overwrite fails too the file is as it was before the call, or
\* holds the first lines of the new content only, none included.
C24_FallbackIsBestEffort ==
    /\ [](fellBack => KeepsTheUpdate)
    /\ [](FellBackAndReturned =>
            outFile \in {prevFile} \cup Prefixes(FileLines(best_records)))
    /\ [][(fellBack /\ storePc = "fallback_write" /\ storePc' = "idle"
              /\ Len(outFile) = Len(best_records))
            => outFile' = FileLines(best_records')]_vars

\* The rename failed and the direct overwrite has written the two current
\* bests over a file that held one line.
C24_Witness ==
    /\ FellBackAndReturned
    /\ Len(best_records) = 2
    /\ Len(prevFile) = 1
    /\ tmpFile # <<>>
    /\ outFile = FileLines(best_records)

----------------------------------------------------------------------------
(* Properties of write_record called by several threads *)

\* No thread is in a call.
Quiescent == \A t \in Threads : thrPc[t] = "idle"

\* The records given to write_record so far, and the seeded ones.
PutSoFar == {s.record : s \in {x \in submitted : x.op = "write_record"}}

\* d holds, for each scenario of recs, a record of the greatest concurrency
\* among those of the scenario in recs, and nothing else.
HoldsGreatestOf(d, recs) ==
    /\ OnePerScenario(d)
    /\ {IoKey(d[i]) : i \in 1..Len(d)} = {IoKey(r) : r \in recs}
    /\ \A i \in 1..Len(d) :
         /\ d[i] \in recs
         /\ \A r \in recs :
              IoKey(r) = IoKey(d[i]) => r.concurrency <= d[i].concurrency

----------------------------------------------------------------------------
(* Properties of a ResultManager called by several threads *)

\* The records given to update_best so far.
UpdatedSoFar == {s.record : s \in {x \in submitted : x.op = "update_best"}}

\* No add_record is about to return True while an add_record of the same key
\* that was in progress with it has returned True.
OneTruePerKey ==
    \A t \in Threads :
        (thrPc[t] = "return" /\ thrOp[t] = "add_record" /\ thrLocal[t])
            => thrOverlap[t] = {}

\* C26. Whatever the interleaving of the add_record and update_best calls of
\* several threads on one ResultManager, a key submitted by calls in progress
\* together is reported new to one of them only, and when the calls have
\* returned the best of each scenario is the satisfying record of greatest
\* concurrency given to update_best.
C26_ThreadedCallsAreAtomic ==
    /\ OneTruePerKey
    /\ Quiescent => BestIsGreatestOf(UpdatedSoFar)

----------------------------------------------------------------------------
(* Properties of the signals of _process_record *)

\* A step in which _process_record calls write_best.
Announces == announceParity' # announceParity

\* C27. _process_record announces only while it processes a record that is
\* no duplicate, that leaves the tracked best of its scenario as it is and
\* whose concurrency is strictly above that best's; what it announces is
\* that tracked best, which satisfies the threshold. It announces nothing
\* for a scenario without a best nor on a record that updates the best.
C27_AnnounceProtocol ==
    [][Announces =>
        \E record \in ProcessRecords :
            /\ DedupKey(record) \notin seen
            /\ DedupKey(record) \in seen'
            /\ best' = best
            /\ putParity' = putParity
            /\ IoKey(record) \in DOMAIN best
            /\ best[IoKey(record)].concurrency < record.concurrency
            /\ ~satisfy(record, self_threshold)
            /\ lastAnnounced' = Some(best[IoKey(record)])
            /\ signalFile' = <<SignalPayload(best[IoKey(record)])>>
            /\ satisfy(best[IoKey(record)], self_threshold)]_vars

\* The tracked best, written to the best-records file by an earlier
\* _process_record, has been announced on a record of a greater concurrency.
C27_Witness ==
    /\ lastAnnounced # NoRecord
    /\ announceParity
    /\ outFile = FileLines(<<lastAnnounced[1]>>)
    /\ Cardinality(seen) = MaxConc + 1
    /\ lastAnnounced[1].concurrency = MaxConc
    /\ signalFile = <<SignalPayload(lastAnnounced[1])>>
    /\ best[IoKey(lastAnnounced[1])] = lastAnnounced[1]

----------------------------------------------------------------------------
(* Properties of a best after its announcement *)

\* C28. An announced best is final: once _process_record has announced the
\* best of a scenario, the tracked best of that scenario does not change,
\* whatever records follow.
C28_AnnouncedBestIsFinal ==
    [][lastAnnounced # NoRecord =>
        best'[IoKey(lastAnnounced[1])] = best[IoKey(lastAnnounced[1])]]_vars

----------------------------------------------------------------------------
(* Properties of the monitor on a duplicate record *)

\* A step in which _process_record is given a record whose key is in the
\* dedup set.
ProcessesDuplicate ==
    /\ monPc = "process"
    /\ pending # <<>>
    /\ pending' = Tail(pending)
    /\ Head(pending).k = "dict"
    /\ DedupKey(from_dict(Head(pending).r[1])) \in seen

\* C29. The monitor skips a record whose dedup key is in the set: processing
\* it makes no write_record and leaves the tracked bests, the dedup set, the
\* map and the file of the OutputWriter and the signal file as they are.
C29_DuplicateIsSkipped ==
    [][ProcessesDuplicate =>
        /\ best' = best
        /\ seen' = seen
        /\ putParity' = putParity
        /\ lastPut' = lastPut
        /\ best_records' = best_records
        /\ outFile' = outFile
        /\ signalFile' = signalFile]_vars

\* The monitor has dropped a record that satisfies the threshold, of the key
\* of a record it had processed, of a greater concurrency than the best.
C29_Witness ==
    /\ monPc = "process"
    /\ \E r \in processedRecs \ freshRecs :
         /\ satisfy(r, self_threshold)
         /\ IoKey(r) \in DOMAIN best
         /\ r.concurrency > best[IoKey(r)].concurrency
    /\ signalFile # NoRecord

----------------------------------------------------------------------------
(* Properties of the monitor loop on a stop request *)

\* The records among the values the for loop had yet to process when the
\* handler ran.
RecordsAtSignal ==
    {from_dict(pendingAtSignal[i].r[1]) :
        i \in {j \in DOMAIN pendingAtSignal : pendingAtSignal[j].k = "dict"}}

\* _process_record has run on record: its key is in the dedup set, and the
\* OutputWriter holds a record of its scenario no lower than the tracked
\* best, if there is one.
HasBeenProcessed(record) ==
    /\ record \in processedRecs
    /\ DedupKey(record) \in seen
    /\ IoKey(record) \in DOMAIN best =>
         /\ KeyIndex(best_records, IoKey(record)) # 0
         /\ best_records[KeyIndex(best_records, IoKey(record))].concurrency
                >= best[IoKey(record)].concurrency

\* C30. A stop request handled while the loop runs does not abort the poll
\* cycle: the handler leaves the loop and the values still to process where
\* they are, the loop leaves only with every value of the cycle processed,
\* and, once running is False, the log is not read again.
C30_StopIsCooperative ==
    /\ [][~signalled /\ signalled' =>
            /\ pending' = pending
            /\ monPc' = monPc
            /\ position' = position]_vars
    /\ [](monPc = "stopped" =>
            /\ pending = <<>>
            /\ \A record \in RecordsAtSignal : HasBeenProcessed(record))
    /\ [][monPc # "constructed" /\ ~running =>
            /\ ~running'
            /\ position' = position
            /\ monPc' # "process" \/ monPc = "process"]_vars

\* The loop has stopped after a request that came with two records of the
\* cycle still to process, the second of them the best of its scenario.
C30_Witness ==
    /\ monPc = "stopped"
    /\ Len(pendingAtSignal) = 2
    /\ Cardinality(RecordsAtSignal) = 2
    /\ \E record \in RecordsAtSignal :
         /\ IoKey(record) \in DOMAIN best
         /\ best[IoKey(record)] = record
         /\ pendingAtSignal[2].r[1] = record

----------------------------------------------------------------------------
(* Properties of the order of the monitor's processing *)

\* The loop has processed every value of its last read, and that read went
\* to the end of a log that ends with a whole line.
CaughtUp ==
    /\ monPc = "process"
    /\ pending = <<>>
    /\ position = Len(logFile)
    /\ AtLineStart

\* C31 as stated. The records the monitor gives to the tracker are the
\* decodable lines of the log in the order of their appending: at any time
\* the first of them, and all of them once the loop has caught up with the
\* log.
C31_HandedInAppendOrder ==
    /\ Len(handed) <= Len(fileRecs)
    /\ handed = SubSeq(fileRecs, 1, Len(handed))
    /\ CaughtUp => handed = fileRecs

----------------------------------------------------------------------------
(* Properties of parse_threshold *)

\* The words of the string that are a metric, a colon and a number, and
\* the others.
WellFormed(items) == SelectSeq(items, LAMBDA c : c.kind = "pair")
Malformed(items) == SelectSeq(items, LAMBDA c : c.kind # "pair")

\* res holds the items of a sequence of well-formed ones, the last of a
\* metric counting.
HoldsTheItems(res, items) ==
    /\ DOMAIN res = {items[i].k : i \in DOMAIN items}
    /\ \A i \in DOMAIN items :
         (\A j \in (i + 1)..Len(items) : items[j].k # items[i].k)
            => res[items[i].k] = items[i].v

\* C32 as stated. parse_threshold returns for every string; every word
\* without a colon or with a ceiling that is no number is dropped and
\* printed as ignored, and every well-formed word is kept.
C32_MalformedWarnedWellFormedKept ==
    parsePc = "returned" =>
        /\ parseRes # NoRecord
        /\ HoldsTheItems(parseRes[1], WellFormed(split(parseInput)))
        /\ parseWarned = Malformed(split(parseInput))

----------------------------------------------------------------------------
(* Properties of the result an iteration of the search uses *)

\* An iteration that took a result for a satisfying one: lo has moved, the
\* running best has changed or write_record was called.
AcceptingIteration ==
    /\ iteration' = iteration + 1
    /\ lo' # lo \/ best_record' # best_record \/ putParity' # putParity

\* C33 as stated. The result an iteration of the search uses is the last
\* record its command appended to the log, never a record the log held
\* before the command ran: an iteration that accepts a result has appended
\* a record, and the running best is the last record it appended.
C33_ResultIsOfTheProbe ==
    [][AcceptingIteration =>
          /\ Len(fileRecs') > Len(fileRecs)
          /\ best_record' = Some(fileRecs'[Len(fileRecs')])]_vars

----------------------------------------------------------------------------
(* Properties of the termination of the search *)

RECURSIVE FloorLog2(_)
FloorLog2(n) == IF n <= 1 THEN 0 ELSE 1 + FloorLog2(n \div 2)

\* An iteration probes a value of the range given, moves neither lo down
\* nor hi up, and leaves a shorter interval.
IterationNarrows ==
    iteration' = iteration + 1 =>
        /\ midpoint(lo, hi) \in min_batch..max_batch
        /\ lo' >= lo
        /\ hi' <= hi
        /\ hi' - lo' + 1 < hi - lo + 1

\* The probes run so far are within the bound of a bisection of the range,
\* and there is none over an empty range.
ProbesWithinBound ==
    IF min_batch > max_batch THEN iteration = 0
    ELSE iteration <= FloorLog2(max_batch - min_batch + 1) + 1

\* C34. The search loop terminates whatever its probes return (a record
\* that satisfies the threshold, one that fails it, or nothing): each
\* iteration probes a value of [min_batch, max_batch], lo never decreases,
\* hi never increases, the interval shrinks at every iteration, the probes
\* number at most floor(log2(max_batch - min_batch + 1)) + 1, and none is
\* run when min_batch > max_batch.
C34_SearchTerminates ==
    /\ [][IterationNarrows]_vars
    /\ []ProbesWithinBound
    /\ <>(searchPc = "done")

\* A search over the widest range is over after as many probes as the bound
\* allows, one of which appended nothing.
C34_Witness ==
    /\ searchPc = "done"
    /\ min_batch = 1
    /\ max_batch = MaxBatch
    /\ iteration = FloorLog2(MaxBatch) + 1
    /\ ~allEmitted
    /\ best_record # NoRecord

----------------------------------------------------------------------------
(* Properties of the running best of the search *)

\* An iteration that accepts its result: lo moves past the probe. The probe
\* accepted before it, if any, was lo - 1.
AcceptsProbe == iteration' = iteration + 1 /\ lo' # lo

\* An accepted probe is above the one accepted before it, and its result
\* is the running best: the record of the probe when the command appended
\* it, a record that satisfies the threshold in any case.
AcceptedProbeIsBest ==
    AcceptsProbe =>
        /\ midpoint(lo, hi) > lo - 1
        /\ lo' = midpoint(lo, hi) + 1
        /\ best_record' # NoRecord
        /\ best_record' = latest[read_new_lines(logFile', 0).yielded]
        /\ satisfy(best_record'[1], self_threshold)
        /\ fileRecs' # fileRecs =>
             best_record' = Some(HarnessRecord(profile, midpoint(lo, hi)))

\* An iteration that accepts nothing leaves the running best.
RejectedProbeKeepsBest ==
    iteration' = iteration + 1 /\ lo' = lo => best_record' = best_record

\* C35. The probes of the successive accepting iterations of the search
\* strictly increase, so the running best is always the result of the
\* largest probe accepted so far, whether or not satisfaction is monotone
\* in the concurrency: an accepted probe never replaces a larger one, and
\* while every command has appended its record the running best is the
\* record of concurrency lo - 1.
C35_BestIsOfLargestAcceptedProbe ==
    /\ [][AcceptedProbeIsBest /\ RejectedProbeKeepsBest]_vars
    /\ [](best_record # NoRecord => lo > min_batch)
    /\ [](allEmitted /\ best_record # NoRecord =>
            best_record = Some(HarnessRecord(profile, lo - 1)))

\* A search over the widest range, with a harness that fails the threshold
\* at 1 and satisfies it at 2 and 3, is over with 3 as its best after
\* accepting 2 and then 3.
C35_Witness ==
    /\ searchPc = "done"
    /\ allEmitted
    /\ self_threshold = TtftThreshold
    /\ min_batch = 1
    /\ max_batch = MaxBatch
    /\ profile[1] = HighMs
    /\ profile[2] = LowMs
    /\ best_record = Some(HarnessRecord(profile, 3))
    /\ iteration = 3

----------------------------------------------------------------------------
(* Properties of the OutputWriter beside the tracker, in the monitor *)

\* The map of the OutputWriter holds, for every scenario with a tracked
\* best, a record of the scenario of a concurrency no lower.
StoreCoversBest ==
    \A io_key \in DOMAIN best :
        /\ KeyIndex(best_records, io_key) # 0
        /\ best_records[KeyIndex(best_records, io_key)].concurrency
              >= best[io_key].concurrency

\* The map of the OutputWriter holds the tracked bests and nothing else.
StoreIsBest ==
    /\ OnePerScenario(best_records)
    /\ {best_records[i] : i \in 1..Len(best_records)}
          = {best[io_key] : io_key \in DOMAIN best}

\* C36. In the monitor, once a record is processed, the OutputWriter holds
\* for every scenario with a tracked best a record of that scenario of a
\* concurrency greater than or equal to the tracked best's; started where
\* no best-records file exists, it holds the tracked bests themselves.
C36_StoreCoversTrackedBest ==
    /\ []StoreCoversBest
    /\ (outFile = <<>> /\ best_records = <<>>) => []StoreIsBest

\* The monitor, started over a file that holds a record of the greatest
\* concurrency, tracks a best of a lower one.
C36_Witness ==
    /\ monPc = "process"
    /\ pending = <<>>
    /\ \E io_key \in DOMAIN best :
         /\ KeyIndex(best_records, io_key) # 0
         /\ best_records[KeyIndex(best_records, io_key)].concurrency
               > best[io_key].concurrency
    /\ Cardinality(seen) >= 2

----------------------------------------------------------------------------
(* Properties of the announcement beside the best-records file *)

\* The concurrencies the best-records file holds for the scenario of a
\* payload.
FileConcurrencies(file, payload) ==
    {file[i].r[1].concurrency :
        i \in {j \in 1..Len(file) :
                 /\ file[j].k = "json"
                 /\ file[j].r[1].input_len = payload.input_len
                 /\ file[j].r[1].output_len = payload.output_len}}

\* C37 as stated. Whenever the monitor writes a best to the signal file,
\* the best_batch written is the concurrency the best-records file holds
\* for the scenario at that moment, the file being the one the OutputWriter
\* last wrote or found.
C37_AnnouncedIsTheFiledBest ==
    [][signalFile' # signalFile /\ outFile' = FileLines(best_records') =>
          FileConcurrencies(outFile', signalFile'[1])
              = {signalFile'[1].best_batch}]_vars

----------------------------------------------------------------------------
(* Properties of the reader on a log that was replaced *)

\* A read of a log that was replaced since the last read by a file of whole
\* record lines, no shorter than the position.
ReadsReplacedLog ==
    /\ readParity' # readParity
    /\ ~appendedOnly
    /\ logFile = FileOf(fileRecs)
    /\ Len(logFile) >= position

\* The records of a file of whole record lines whose line starts at or
\* after pos: each line is the record and its newline.
StartingBeyond(recs, pos) ==
    SubSeq(recs, (pos + 1) \div 2 + 1, Len(recs))

\* C38. The reader detects a replaced log by its size only: when the log
\* is replaced by a file of a size greater than or equal to the position,
\* the next read_new_lines does not reset and yields only the records that
\* lie beyond the position in the new file; the records the new file holds
\* before it are not delivered.
C38_RotationSeenBySizeOnly ==
    [][ReadsReplacedLog =>
          /\ ~readReset'
          /\ position' = Len(logFile)
          /\ Len(yielded') = Len(StartingBeyond(fileRecs, position))
          /\ \A i \in 1..Len(yielded') :
                yielded'[i] = DictOf(StartingBeyond(fileRecs, position)[i])]_vars

\* The log has been replaced by a file of two records whose first one, a
\* record the reader has not delivered, lies before the reader's position.
C38_Witness ==
    /\ ~appendedOnly
    /\ Len(fileRecs) = 2
    /\ logFile = FileOf(fileRecs)
    /\ position = 2
    /\ Len(yielded) = 1
    /\ yielded[1].k = "dict"
    /\ yielded[1].r[1] # fileRecs[1]

====
